---- MODULE Spec2Model ----
(***************************************************************************)
(* btlescan: the session state of src/app.rs, the event loop and the       *)
(* channel drain of src/viewer.rs, the background operations of            *)
(* src/scan.rs and the attribute server of src/server.rs.                  *)
(*                                                                         *)
(* Conventions.  An Option<T> is a sequence of length 0 (None) or 1        *)
(* (Some).  Vec indices are kept 0-based as in the source; At0 reads a     *)
(* 0-based index of a TLA+ sequence.  A String is the sequence of its      *)
(* UTF-8 bytes, so String::len is Len and a char boundary is a position    *)
(* that is not followed by a continuation byte (0x80..0xBF).               *)
(*                                                                         *)
(* The capacities of the source (MAX_DEVICES = 500, MAX_CHAR_VALUES = 100, *)
(* MAX_LOG_ENTRIES = 1000, MAX_INPUT_LEN = 16384, MAX_CHARACTERISTIC_SIZE  *)
(* = 512) are scaled down so that the collections fill up and overflow     *)
(* within the explored state space; every definition that uses them is     *)
(* written for an arbitrary capacity.                                      *)
(***************************************************************************)
EXTENDS Integers, Sequences, FiniteSets, Bags, TLC

\* ------------------------------------------------------------------------
\* Scaled capacities (the source's names; the source's values are in the
\* comment above) and the bounds of the environment.

MAX_DEVICES == 2

MAX_CHAR_VALUES == 2

MAX_LOG_ENTRIES == 2

MAX_INPUT_LEN == 4

\* src/utils.rs; equal to MAX_INPUT_LEN in the source (16 * 1024).
MAX_HEX_INPUT_LEN == 4

MAX_CHARACTERISTIC_SIZE == 3

\* usize::MAX, scaled: the value an out-of-range u64 offset converts to.
USIZE_MAX == 1000

\* Device ids the gateway can report, and the rssi readings of a report.
NumDeviceIds == 3

NumRssi == 1

\* Attribute uuids of a remote device, and the byte values it reports.
NumUuids == 3

\* Capacity of the modelled event channel (unbounded in the source).
MaxQueue == 1

\* Background operations in flight at once.
MaxOps == 2

\* Scan tasks alive at once.
MaxScanTasks == 2

\* Entries appended to the log in the specification of the log.
MaxAppends == 6

\* Peer requests queued for the request-handling task.
MaxPeerQueue == 1

DeviceIds == 1..NumDeviceIds
Rssis == 1..NumRssi
Uuids == 1..NumUuids
RemoteValues == {<<7>>, <<8, 9>>}

\* ------------------------------------------------------------------------
\* Helpers

None == <<>>
Some(x) == <<x>>
IsSome(o) == Len(o) = 1
IsNone(o) == Len(o) = 0
Unwrap(o) == o[1]
unwrap_or(o, d) == IF IsSome(o) THEN o[1] ELSE d

Min(a, b) == IF a < b THEN a ELSE b
Max(a, b) == IF a > b THEN a ELSE b
saturating_sub(a, b) == IF a > b THEN a - b ELSE 0
saturating_add(a, b) == Min(a + b, USIZE_MAX)

At0(s, i) == s[i + 1]
Range(s) == {s[i] : i \in 1..Len(s)}

\* Vec::remove(i), 0-based.
vec_remove(s, i) == SubSeq(s, 1, i) \o SubSeq(s, i + 2, Len(s))

\* Vec::retain(|x| x != v)
RECURSIVE retain_ne(_, _)
retain_ne(s, v) ==
    IF s = <<>> THEN <<>>
    ELSE IF Head(s) = v THEN retain_ne(Tail(s), v)
         ELSE <<Head(s)>> \o retain_ne(Tail(s), v)

\* iter().take(n)
take(s, n) == SubSeq(s, 1, Min(n, Len(s)))

\* HashMap::insert / remove on a function with a finite domain.
map_insert(m, k, v) == [x \in DOMAIN m \cup {k} |-> IF x = k THEN v ELSE m[x]]
map_remove(m, k) == [x \in DOMAIN m \ {k} |-> m[x]]
EmptyMap == [x \in {} |-> <<>>]


\* ------------------------------------------------------------------------
\* State

VARIABLES
    app,                  \* the App struct (src/app.rs)
    rx,                   \* the DeviceData channel, oldest message first
    scan_tasks,           \* the spawned bluetooth_scan tasks
    ops,                  \* background gateway operations in flight (a bag)
    server_shared_value,  \* Arc<Mutex<Vec<u8>>> of the attribute server
    peer_rx,              \* PeripheralEvent channel of the running server
    responses,            \* what the last handled peer request was answered
    pc,                   \* position of the viewer loop
    was_loading,          \* viewer's local of the same name
    panicked,             \* a Rust panic unwound the event loop
    appended,             \* how many entries AppendLog has appended
    discovered,           \* device ids, by their latest recorded discovery
    last                  \* the operation the last step performed

vars == <<app, rx, scan_tasks, ops, server_shared_value, peer_rx,
          responses, pc, was_loading, panicked, appended, discovered,
          last>>

\* The part of the state the App methods read and write, as one value, so
\* that a method is an operator from state to state.
World == [app |-> app, rx |-> rx, scan_tasks |-> scan_tasks, ops |-> ops,
          server_shared_value |-> server_shared_value,
          peer_rx |-> peer_rx, panicked |-> panicked]

Commit(w) ==
    /\ app' = w.app
    /\ rx' = w.rx
    /\ scan_tasks' = w.scan_tasks
    /\ ops' = w.ops
    /\ server_shared_value' = w.server_shared_value
    /\ peer_rx' = w.peer_rx
    /\ panicked' = w.panicked

\* Scaled-down texts of the three server configuration fields.
DEFAULT_SERVER_NAME == <<98>>
DEFAULT_SERVICE_UUID == <<52, 52>>
DEFAULT_CHAR_UUID == <<52, 53>>

AppNew ==
    [ pause_status |-> FALSE,
      scan_shutdown |-> None,
      scan_handle |-> None,
      mode |-> "Client",
      focus |-> "DeviceList",
      input_mode |-> "Normal",
      data_format |-> "Hex",
      table_state |-> None,
      devices |-> <<>>,
      connected_device |-> None,
      is_connected |-> FALSE,
      selected_characteristics |-> <<>>,
      char_table_state |-> None,
      char_values |-> EmptyMap,
      char_values_order |-> <<>>,
      subscribed_chars |-> {},
      input_buffer |-> <<>>,
      cursor_position |-> 0,
      message_log |-> <<>>,
      log_scroll |-> 0,
      is_advertising |-> FALSE,
      server_name |-> DEFAULT_SERVER_NAME,
      server_service_uuid |-> DEFAULT_SERVICE_UUID,
      server_char_uuid |-> DEFAULT_CHAR_UUID,
      server_field_focus |-> "Name",
      server_handle |-> None,
      is_loading |-> FALSE,
      error_view |-> FALSE,
      error_message |-> "",
      should_quit |-> FALSE ]

NoOp == [op |-> "none", uuid |-> 0, value |-> <<>>, present |-> FALSE,
         evicted |-> {}, offset |-> 0, before |-> <<>>,
         subscribed |-> {}, writes |-> <<>>]

Init ==
    /\ app = AppNew
    /\ rx = <<>>
    /\ scan_tasks = [cur |-> "none", orphans |-> 0, at |-> "none",
                     scanning |-> FALSE, signal |-> "none"]
    /\ ops = EmptyBag
    /\ server_shared_value = <<>>
    /\ peer_rx = <<>>
    /\ responses = <<>>
    /\ pc = "main"
    /\ was_loading = FALSE
    /\ panicked = FALSE
    /\ appended = 0
    /\ discovered = <<>>
    /\ last = NoOp

\* ------------------------------------------------------------------------
\* Messages of the channel (enum DeviceData) and background operations

Msg(kind) == [kind |-> kind, dev |-> 0, rssi |-> 0, chars |-> <<>>,
              uuid |-> 0, value |-> <<>>, direction |-> "", text |-> ""]

Error(text) == [Msg("Error") EXCEPT !.text = text]

Op(kind, dev, uuid) == [kind |-> kind, dev |-> dev, uuid |-> uuid]

spawn(w, op) == [w EXCEPT !.ops = w.ops (+) SetToBag({op})]

\* send_or_log: the receiver lives as long as the App, so the send succeeds.
send_or_log(w, msg) == [w EXCEPT !.rx = Append(w.rx, msg)]

\* ------------------------------------------------------------------------
\* App methods (src/app.rs)

\* The wording of a log line or of a gateway error is not modelled: every
\* text is the same token.
Txt(s) == "-"

\* LogEntry::new; the timestamp, a formatted wall-clock time that no code
\* reads back, is left out.
LogEntry(direction, message) == [direction |-> direction, message |-> message]

\* Mutant of add_log: the truncation keeps the oldest entries.
add_log_keep_oldest(w, direction, message) ==
    LET pushed == Append(w.app.message_log, LogEntry(direction, message))
        kept == IF Len(pushed) > MAX_LOG_ENTRIES
                THEN SubSeq(pushed, 1, MAX_LOG_ENTRIES)
                ELSE pushed
    IN [w EXCEPT !.app.message_log = kept,
                 !.app.log_scroll = saturating_sub(Len(kept), 1)]

add_log(w, direction, message) ==
    LET pushed == Append(w.app.message_log, LogEntry(direction, message))
        kept == IF Len(pushed) > MAX_LOG_ENTRIES
                THEN SubSeq(pushed, Len(pushed) - MAX_LOG_ENTRIES + 1, Len(pushed))
                ELSE pushed
    IN [w EXCEPT !.app.message_log = kept,
                 !.app.log_scroll = saturating_sub(Len(kept), 1)]

\* scan(): the previous sender and handle, if any, are dropped: a task that
\* is still alive then runs on without a handle, its shutdown channel closed.
scan(w) ==
    [w EXCEPT !.app.pause_status = FALSE,
              !.app.scan_shutdown = Some("tx"),
              !.app.scan_handle = Some("handle"),
              !.scan_tasks = [cur |-> "alive",
                              orphans |-> IF w.scan_tasks.cur = "alive"
                                          THEN w.scan_tasks.orphans + 1
                                          ELSE w.scan_tasks.orphans,
                              at |-> "init",
                              scanning |-> FALSE,
                              signal |-> "none"]]

\* stop_scan(): sends the shutdown, awaits the task, sets the pause flag.
\* The awaited task has left its loop when the await returns.
stop_scan(w) ==
    [w EXCEPT !.app.scan_shutdown = None,
              !.app.scan_handle = None,
              !.app.pause_status = TRUE,
              !.scan_tasks.cur = "none",
              !.scan_tasks.at = "none",
              !.scan_tasks.scanning = FALSE,
              !.scan_tasks.signal = "none"]

\* The two halves of stop_scan(): the shutdown is sent on the oneshot
\* channel; when the awaited handle is ready the pause flag is set.
stop_scan_send(w) ==
    IF IsSome(w.app.scan_shutdown)
    THEN [w EXCEPT !.app.scan_shutdown = None,
                   !.scan_tasks.signal =
                       IF w.scan_tasks.cur = "alive" THEN "sent" ELSE @]
    ELSE w

stop_scan_return(w) ==
    [w EXCEPT !.app.scan_handle = None,
              !.app.pause_status = TRUE]

selected_idx(a) ==
    Min(unwrap_or(a.table_state, 0), saturating_sub(Len(a.devices), 1))

selected_device(a) ==
    IF selected_idx(a) < Len(a.devices)
    THEN Some(At0(a.devices, selected_idx(a)))
    ELSE None

\* Mutant of connect: a connect is started even while one is loading.
connect_unguarded(w) ==
    IF IsSome(selected_device(w.app))
    THEN LET device == Unwrap(selected_device(w.app))
             w1 == stop_scan(w)
             w2 == [w1 EXCEPT !.app.char_values = EmptyMap,
                              !.app.char_values_order = <<>>,
                              !.app.is_loading = TRUE,
                              !.app.connected_device = Some(device)]
         IN spawn(w2, Op("connect", device.id, 0))
    ELSE [w EXCEPT !.app.error_message = "No device selected",
                   !.app.error_view = TRUE]

\* Mutant of connect: without a device to select the command is dropped
\* silently.
connect_silent(w) ==
    IF w.app.is_loading THEN w
    ELSE IF IsSome(selected_device(w.app))
    THEN LET device == Unwrap(selected_device(w.app))
             w1 == stop_scan(w)
             w2 == [w1 EXCEPT !.app.char_values = EmptyMap,
                              !.app.char_values_order = <<>>,
                              !.app.is_loading = TRUE,
                              !.app.connected_device = Some(device)]
         IN spawn(w2, Op("connect", device.id, 0))
    ELSE w

connect(w) ==
    IF w.app.is_loading THEN w
    ELSE IF IsSome(selected_device(w.app))
    THEN LET device == Unwrap(selected_device(w.app))
             w1 == stop_scan(w)
             w2 == [w1 EXCEPT !.app.char_values = EmptyMap,
                              !.app.char_values_order = <<>>,
                              !.app.is_loading = TRUE,
                              !.app.connected_device = Some(device)]
         IN spawn(w2, Op("connect", device.id, 0))
    ELSE [w EXCEPT !.app.error_message = "No device selected",
                   !.app.error_view = TRUE]

\* Mutant of disconnect: the local state is cleared only when the
\* DisconnectDone event arrives, and scanning is not resumed.
disconnect_deferred(w) ==
    LET w1 == IF IsSome(w.app.connected_device)
              THEN spawn(w, Op("disconnect", 0, 0))
              ELSE w
    IN add_log(w1, "Info", Txt("Disconnected from device"))

disconnect(w) ==
    LET w1 == IF IsSome(w.app.connected_device)
              THEN spawn(w, Op("disconnect", 0, 0))
              ELSE w
        w2 == [w1 EXCEPT !.app.is_connected = FALSE,
                         !.app.is_loading = FALSE,
                         !.app.connected_device = None,
                         !.app.selected_characteristics = <<>>,
                         !.app.char_table_state = None,
                         !.app.char_values = EmptyMap,
                         !.app.char_values_order = <<>>,
                         !.app.subscribed_chars = {},
                         !.app.input_buffer = <<>>,
                         !.app.cursor_position = 0]
    IN scan(add_log(w2, "Info", Txt("Disconnected from device")))

\* Mutant of clear_connection_state: the subscription set and the value
\* cache survive.
clear_connection_state_keeps_cache(w) ==
    [w EXCEPT !.app.connected_device = None,
              !.app.is_connected = FALSE,
              !.app.selected_characteristics = <<>>,
              !.app.char_table_state = None]

clear_connection_state(w) ==
    [w EXCEPT !.app.connected_device = None,
              !.app.is_connected = FALSE,
              !.app.selected_characteristics = <<>>,
              !.app.char_table_state = None,
              !.app.char_values = EmptyMap,
              !.app.char_values_order = <<>>,
              !.app.subscribed_chars = {}]

\* The eviction loop of insert_char_value: while the map is over capacity,
\* remove the first uuid of the ledger from both.
RECURSIVE evict_char_values(_, _)
evict_char_values(values, order) ==
    IF Cardinality(DOMAIN values) > MAX_CHAR_VALUES /\ order # <<>>
    THEN evict_char_values(map_remove(values, Head(order)), Tail(order))
    ELSE [values |-> values, order |-> order]

\* Mutant of insert_char_value: the prior ledger position is not removed.
insert_char_value_no_retain(w, uuid, value) ==
    LET r == evict_char_values(map_insert(w.app.char_values, uuid, value),
                               Append(w.app.char_values_order, uuid))
    IN [w EXCEPT !.app.char_values = r.values,
                 !.app.char_values_order = r.order]

\* Mutant of insert_char_value: a uuid already present keeps its ledger
\* position.
insert_char_value_keep_position(w, uuid, value) ==
    LET r == evict_char_values(map_insert(w.app.char_values, uuid, value),
                               IF uuid \in DOMAIN w.app.char_values
                               THEN w.app.char_values_order
                               ELSE Append(w.app.char_values_order, uuid))
    IN [w EXCEPT !.app.char_values = r.values,
                 !.app.char_values_order = r.order]

\* Mutant of insert_char_value: the eviction passes over subscribed uuids.
insert_char_value_spares_subscribed(w, uuid, value) ==
    LET order0 == IF uuid \in DOMAIN w.app.char_values
                  THEN retain_ne(w.app.char_values_order, uuid)
                  ELSE w.app.char_values_order
        values1 == map_insert(w.app.char_values, uuid, value)
        order1 == Append(order0, uuid)
        free == {i \in 1..Len(order1) : order1[i] \notin w.app.subscribed_chars}
        victim == IF free # {}
                  THEN order1[CHOOSE i \in free : \A j \in free : i <= j]
                  ELSE order1[1]
    IN IF Cardinality(DOMAIN values1) > MAX_CHAR_VALUES
       THEN [w EXCEPT !.app.char_values = map_remove(values1, victim),
                      !.app.char_values_order = retain_ne(order1, victim)]
       ELSE [w EXCEPT !.app.char_values = values1,
                      !.app.char_values_order = order1]

insert_char_value(w, uuid, value) ==
    LET order0 == IF uuid \in DOMAIN w.app.char_values
                  THEN retain_ne(w.app.char_values_order, uuid)
                  ELSE w.app.char_values_order
        r == evict_char_values(map_insert(w.app.char_values, uuid, value),
                               Append(order0, uuid))
    IN [w EXCEPT !.app.char_values = r.values,
                 !.app.char_values_order = r.order]

selected_characteristic(a) ==
    IF IsSome(a.char_table_state)
       /\ Unwrap(a.char_table_state) < Len(a.selected_characteristics)
    THEN Some(At0(a.selected_characteristics, Unwrap(a.char_table_state)))
    ELSE None

FocusNext(f) ==
    CASE f = "DeviceList" -> "Characteristics"
      [] f = "Characteristics" -> "ReadWrite"
      [] f = "ReadWrite" -> "MessageLog"
      [] f = "MessageLog" -> "DeviceList"

cycle_focus(w) == [w EXCEPT !.app.focus = FocusNext(w.app.focus)]

DataFormatToggle(f) == IF f = "Text" THEN "Hex" ELSE "Text"

toggle_data_format(w) ==
    [w EXCEPT !.app.data_format = DataFormatToggle(w.app.data_format)]

toggle_mode(w) ==
    [w EXCEPT !.app.mode = IF w.app.mode = "Client" THEN "Server" ELSE "Client"]


\* ------------------------------------------------------------------------
\* Strings: UTF-8 byte sequences (std::string::String)

IsContinuation(b) == b >= 128 /\ b <= 191

\* char::len_utf8 of the char whose first byte is b.
len_utf8(b) ==
    IF b < 128 THEN 1
    ELSE IF b < 224 THEN 2
    ELSE IF b < 240 THEN 3
    ELSE 4

\* str::is_char_boundary
is_char_boundary(s, i) ==
    \/ i = 0
    \/ i = Len(s)
    \/ i < Len(s) /\ ~IsContinuation(s[i + 1])

\* s[..i].chars().last().map_or(0, char::len_utf8), for a boundary i
RECURSIVE last_char_len(_, _)
last_char_len(s, i) ==
    IF i = 0 THEN 0
    ELSE IF IsContinuation(s[i]) /\ i > 1 THEN 1 + last_char_len(s, i - 1)
    ELSE 1

\* s[i..].chars().next().map_or(1, char::len_utf8), for a boundary i
next_char_len(s, i) == IF i < Len(s) THEN len_utf8(s[i + 1]) ELSE 1

panic(w) == [w EXCEPT !.panicked = TRUE]

\* String::insert(idx, ch): panics unless idx is a char boundary.
insert_char(w, c) ==
    LET buf == w.app.input_buffer
        cur == w.app.cursor_position
    IN IF Len(buf) >= MAX_INPUT_LEN THEN w
       ELSE IF ~is_char_boundary(buf, cur) \/ cur > Len(buf) THEN panic(w)
       ELSE [w EXCEPT !.app.input_buffer =
                          SubSeq(buf, 1, cur) \o c \o SubSeq(buf, cur + 1, Len(buf)),
                      !.app.cursor_position = cur + Len(c)]

\* String::remove(idx) removes the whole char that starts at idx; slicing
\* and remove panic off a char boundary.
delete_char(w) ==
    LET buf == w.app.input_buffer
        cur == w.app.cursor_position
    IN IF cur > 0
       THEN IF cur > Len(buf) \/ ~is_char_boundary(buf, cur) THEN panic(w)
            ELSE LET prev == last_char_len(buf, cur)
                     at == cur - prev
                 IN [w EXCEPT !.app.cursor_position = at,
                              !.app.input_buffer =
                                  SubSeq(buf, 1, at)
                                  \o SubSeq(buf, at + len_utf8(buf[at + 1]) + 1, Len(buf))]
       ELSE w

\* Mutant of cursor_left: the cursor moves back one byte.
cursor_left_one_byte(w) ==
    LET cur == w.app.cursor_position
    IN IF cur > 0 THEN [w EXCEPT !.app.cursor_position = cur - 1] ELSE w

cursor_left(w) ==
    LET buf == w.app.input_buffer
        cur == w.app.cursor_position
    IN IF cur > 0
       THEN IF cur > Len(buf) \/ ~is_char_boundary(buf, cur) THEN panic(w)
            ELSE [w EXCEPT !.app.cursor_position = cur - last_char_len(buf, cur)]
       ELSE w

cursor_right(w) ==
    LET buf == w.app.input_buffer
        cur == w.app.cursor_position
    IN IF cur < Len(buf)
       THEN IF ~is_char_boundary(buf, cur) THEN panic(w)
            ELSE [w EXCEPT !.app.cursor_position = cur + next_char_len(buf, cur)]
       ELSE w

\* ------------------------------------------------------------------------
\* src/utils.rs: hex formatting and parsing

Ok(bytes) == [tag |-> "Ok", bytes |-> bytes]
Err == [tag |-> "Err", bytes |-> <<>>]
Panic == [tag |-> "Panic", bytes |-> <<>>]

\* char::is_whitespace on the ASCII range
is_whitespace(b) == b \in {9, 10, 11, 12, 13, 32}

\* the upper-case hex digit of a nibble, as its ASCII byte
HexDigit(n) == IF n < 10 THEN 48 + n ELSE 55 + n

\* bytes_to_hex: "{b:02X}" of every byte, joined by one space
RECURSIVE bytes_to_hex(_)
bytes_to_hex(bytes) ==
    IF bytes = <<>> THEN <<>>
    ELSE LET b == Head(bytes)
             pair == <<HexDigit(b \div 16), HexDigit(b % 16)>>
         IN IF Tail(bytes) = <<>> THEN pair
            ELSE pair \o <<32>> \o bytes_to_hex(Tail(bytes))

\* char::to_digit(16) of an ASCII byte; -1 when it is no hex digit
to_digit16(b) ==
    IF b >= 48 /\ b <= 57 THEN b - 48
    ELSE IF b >= 97 /\ b <= 102 THEN b - 87
    ELSE IF b >= 65 /\ b <= 70 THEN b - 55
    ELSE -1

\* u8::from_str_radix(s, 16) of a two-byte str: a leading '+' is a sign.
\* -1 stands for Err.
from_str_radix16(s) ==
    IF s[1] = 43
    THEN to_digit16(s[2])
    ELSE IF to_digit16(s[1]) < 0 \/ to_digit16(s[2]) < 0 THEN -1
         ELSE 16 * to_digit16(s[1]) + to_digit16(s[2])

\* hex.chars().filter(|c| !c.is_whitespace()).collect()
RECURSIVE strip_whitespace(_)
strip_whitespace(s) ==
    IF s = <<>> THEN <<>>
    ELSE IF is_whitespace(Head(s)) THEN strip_whitespace(Tail(s))
         ELSE <<Head(s)>> \o strip_whitespace(Tail(s))

\* the map over (0..len).step_by(2), collected into a Result; the slice
\* cleaned[i..i + 2] panics when i or i + 2 is no char boundary
RECURSIVE parse_pairs(_, _)
parse_pairs(cleaned, i) ==
    IF i >= Len(cleaned) THEN Ok(<<>>)
    ELSE IF ~is_char_boundary(cleaned, i) \/ ~is_char_boundary(cleaned, i + 2)
    THEN Panic
    ELSE LET v == from_str_radix16(SubSeq(cleaned, i + 1, i + 2))
             rest == parse_pairs(cleaned, i + 2)
         IN IF v < 0 THEN Err
            ELSE IF rest.tag # "Ok" THEN rest
            ELSE Ok(<<v>> \o rest.bytes)

\* Mutant of hex_to_bytes: whitespace is not removed.
hex_to_bytes_keeps_whitespace(hex) ==
    IF hex = <<>> THEN Ok(<<>>)
    ELSE IF Len(hex) > MAX_HEX_INPUT_LEN THEN Err
    ELSE IF Len(hex) % 2 # 0 THEN Err
    ELSE parse_pairs(hex, 0)

hex_to_bytes(hex) ==
    LET cleaned == strip_whitespace(hex)
    IN IF cleaned = <<>> THEN Ok(<<>>)
       ELSE IF Len(cleaned) > MAX_HEX_INPUT_LEN THEN Err
       ELSE IF Len(cleaned) % 2 # 0 THEN Err
       ELSE parse_pairs(cleaned, 0)

\* Mutant of parse_input: a text that does not parse is an empty value, and
\* a text of any length is taken.
parse_input_lenient(a) ==
    IF a.data_format = "Hex"
    THEN IF hex_to_bytes(a.input_buffer) = Err THEN Ok(<<>>)
         ELSE hex_to_bytes(a.input_buffer)
    ELSE Ok(a.input_buffer)

parse_input(a) ==
    IF a.data_format = "Hex" THEN hex_to_bytes(a.input_buffer)
    ELSE IF Len(a.input_buffer) > MAX_INPUT_LEN THEN Err
    ELSE Ok(a.input_buffer)


\* ------------------------------------------------------------------------
\* Gateway operations started by the App (src/app.rs)

connected_peripheral(a) == IsSome(a.connected_device)

read_selected_characteristic(w) ==
    IF IsSome(selected_characteristic(w.app)) /\ connected_peripheral(w.app)
    THEN spawn(w, Op("read", Unwrap(w.app.connected_device).id,
                     Unwrap(selected_characteristic(w.app))))
    ELSE w

\* Result<(), String>: ok is FALSE for Err.
write_selected_characteristic(w) ==
    LET data == parse_input(w.app)
    IN IF data.tag = "Panic" THEN [w |-> panic(w), ok |-> FALSE]
       ELSE IF data.tag = "Err" THEN [w |-> w, ok |-> FALSE]
       ELSE IF IsSome(selected_characteristic(w.app)) /\ connected_peripheral(w.app)
       THEN LET w1 == add_log(w, "Sent", Txt("write"))
                w2 == spawn(w1, Op("write", Unwrap(w.app.connected_device).id,
                                   Unwrap(selected_characteristic(w.app))))
            IN [w |-> [w2 EXCEPT !.app.input_buffer = <<>>,
                                 !.app.cursor_position = 0],
                ok |-> TRUE]
       ELSE [w |-> w, ok |-> FALSE]

toggle_subscribe(w) ==
    IF IsSome(selected_characteristic(w.app)) /\ connected_peripheral(w.app)
    THEN LET u == Unwrap(selected_characteristic(w.app))
             d == Unwrap(w.app.connected_device).id
         IN IF u \in w.app.subscribed_chars
            THEN spawn(w, Op("unsubscribe", d, u))
            ELSE spawn(w, Op("subscribe", d, u))
    ELSE w

\* ------------------------------------------------------------------------
\* Attribute server (src/app.rs, src/server.rs)

\* Uuid::parse_str on the scaled-down texts: two hex digits.
uuid_parse_ok(s) ==
    Len(s) = 2 /\ to_digit16(s[1]) >= 0 /\ to_digit16(s[2]) >= 0

\* started: whether server::start_server (the gateway) succeeded.
start_server(w, started) ==
    IF w.app.is_advertising THEN w
    ELSE IF ~uuid_parse_ok(w.app.server_service_uuid)
    THEN [w EXCEPT !.app.error_message = "Invalid service UUID",
                   !.app.error_view = TRUE]
    ELSE IF ~uuid_parse_ok(w.app.server_char_uuid)
    THEN [w EXCEPT !.app.error_message = "Invalid characteristic UUID",
                   !.app.error_view = TRUE]
    ELSE IF started
    THEN add_log([w EXCEPT !.app.server_handle = Some("server"),
                           !.app.is_advertising = TRUE],
                 "Info", Txt("GATT server advertising started"))
    ELSE LET w1 == add_log(w, "Error", Txt("Server start failed"))
         IN [w1 EXCEPT !.app.error_message = "Server start failed",
                       !.app.error_view = TRUE]

stop_server(w) ==
    add_log([w EXCEPT !.app.server_handle = None,
                      !.app.is_advertising = FALSE,
                      !.server_shared_value = <<>>],
            "Info", Txt("GATT server stopped"))

\* ServerHandle::set_value
set_value(w, data) == [w EXCEPT !.server_shared_value = data]

\* Mutant of set_server_char_value: the value is stored uncapped.
set_server_char_value_uncapped(w, data) ==
    IF IsSome(w.app.server_handle)
    THEN add_log(set_value(w, data), "Info", Txt("Value set"))
    ELSE w

set_server_char_value(w, data) ==
    LET capped == IF Len(data) > MAX_CHARACTERISTIC_SIZE
                  THEN take(data, MAX_CHARACTERISTIC_SIZE)
                  ELSE data
    IN IF IsSome(w.app.server_handle)
       THEN add_log(set_value(w, capped), "Info", Txt("Value set"))
       ELSE w

\* updated: whether ServerHandle::update_value (the gateway) succeeded.
send_server_notify(w, updated) ==
    IF IsSome(w.app.server_handle)
    THEN IF w.server_shared_value = <<>>
         THEN add_log(w, "Error", Txt("No value set"))
         ELSE IF updated THEN add_log(w, "Sent", Txt("Notify"))
              ELSE add_log(w, "Error", Txt("Notify failed"))
    ELSE w

get_server_char_value(w) == w.server_shared_value

server_field_value(a, field) ==
    CASE field = "Name" -> a.server_name
      [] field = "ServiceUuid" -> a.server_service_uuid
      [] field = "CharUuid" -> a.server_char_uuid

set_server_field_value(w, field, value) ==
    CASE field = "Name" -> [w EXCEPT !.app.server_name = value]
      [] field = "ServiceUuid" -> [w EXCEPT !.app.server_service_uuid = value]
      [] field = "CharUuid" -> [w EXCEPT !.app.server_char_uuid = value]

ServerFieldNext(f) ==
    CASE f = "Name" -> "ServiceUuid"
      [] f = "ServiceUuid" -> "CharUuid"
      [] f = "CharUuid" -> "Name"

ServerFieldPrev(f) ==
    CASE f = "Name" -> "CharUuid"
      [] f = "ServiceUuid" -> "Name"
      [] f = "CharUuid" -> "ServiceUuid"

\* offset.try_into().unwrap_or(usize::MAX)
offset_usize(offset) == IF offset > USIZE_MAX THEN USIZE_MAX ELSE offset

ServerLog(direction, text) ==
    [Msg("ServerLog") EXCEPT !.direction = direction, !.text = text]

\* Vec::resize(end, 0) followed by copy_from_slice into [offset, end)
splice(old, offset, value) ==
    LET end == offset + Len(value)
        grown == IF end > Len(old)
                 THEN old \o [i \in 1..(end - Len(old)) |-> 0]
                 ELSE old
    IN [i \in 1..Len(grown) |->
           IF i > offset /\ i <= end THEN value[i - offset] ELSE grown[i]]

\* Mutant of read_request: the whole value is returned whatever the offset.
read_request_whole(w, offset) ==
    [w |-> send_or_log(w, ServerLog("Received", Txt("Read request"))),
     resp |-> [kind |-> "Read", response |-> "Success",
               value |-> w.server_shared_value]]

\* handle_peripheral_event, PeripheralEvent::ReadRequest
read_request(w, offset) ==
    LET full == w.server_shared_value
        off == Min(offset_usize(offset), Len(full))
        value == IF off >= Len(full) THEN <<>>
                 ELSE SubSeq(full, off + 1, Len(full))
    IN [w |-> send_or_log(w, ServerLog("Received", Txt("Read request"))),
        resp |-> [kind |-> "Read", response |-> "Success", value |-> value]]

\* Mutant of write_rejected: only the offset is compared with the capacity.
write_rejected_offset_only(offset, value) ==
    offset_usize(offset) > MAX_CHARACTERISTIC_SIZE

\* Which write requests the handler rejects.
write_rejected(offset, value) ==
    \/ offset_usize(offset) > MAX_CHARACTERISTIC_SIZE
    \/ saturating_add(offset_usize(offset), Len(value)) > MAX_CHARACTERISTIC_SIZE

\* Mutant of write_store: a write at offset 0 is spliced like any other.
write_store_merge(old, offset, value) ==
    splice(old, offset_usize(offset), value)

\* The store after an accepted write.
write_store(old, offset, value) ==
    IF offset_usize(offset) = 0 THEN value
    ELSE splice(old, offset_usize(offset), value)

\* handle_peripheral_event, PeripheralEvent::WriteRequest
write_request(w, offset, value) ==
    IF write_rejected(offset, value)
    THEN [w |-> w,
          resp |-> [kind |-> "Write", response |-> "InvalidOffset", value |-> <<>>]]
    ELSE LET w1 == send_or_log(w, ServerLog("Received", Txt("Write request")))
         IN [w |-> [w1 EXCEPT !.server_shared_value =
                                  write_store(w.server_shared_value, offset, value)],
             resp |-> [kind |-> "Write", response |-> "Success", value |-> <<>>]]

\* handle_peripheral_event, StateUpdate and CharacteristicSubscriptionUpdate
info_event(w, text) ==
    [w |-> send_or_log(w, ServerLog("Info", Txt(text))),
     resp |-> [kind |-> "None", response |-> "", value |-> <<>>]]

PeerEvent(kind, offset, value) == [kind |-> kind, offset |-> offset, value |-> value]

handle_peripheral_event(w, ev) ==
    CASE ev.kind = "StateUpdate" -> info_event(w, "Bluetooth adapter powered")
      [] ev.kind = "SubscriptionUpdate" -> info_event(w, "Client subscription")
      [] ev.kind = "ReadRequest" -> read_request(w, ev.offset)
      [] ev.kind = "WriteRequest" -> write_request(w, ev.offset, ev.value)


\* ------------------------------------------------------------------------
\* process_channel_messages (src/viewer.rs), one arm per message kind

DeviceInfo(id, rssi) == [id |-> id, rssi |-> rssi]

\* DeviceInfo::get_id
get_id(d) == d.id

find_device(devices, id) == {i \in 0..(Len(devices) - 1) : get_id(At0(devices, i)) = id}

\* Mutant of indices_to_remove: the connected device is not exempt.
indices_to_remove_unprotected(devices, connected_device) ==
    0..(Len(devices) - MAX_DEVICES - 1)

\* (0..excess).filter(|i| connected_id.is_none_or(|cid| devices[i].get_id() != cid))
indices_to_remove(devices, connected_device) ==
    LET excess == Len(devices) - MAX_DEVICES
    IN {i \in 0..(excess - 1) :
           \/ IsNone(connected_device)
           \/ get_id(At0(devices, i)) # get_id(Unwrap(connected_device))}

\* for i in indices_to_remove.into_iter().rev() { devices.remove(i) }
RECURSIVE remove_indices(_, _, _)
remove_indices(devices, indices, i) ==
    IF i < 0 THEN devices
    ELSE remove_indices(IF i \in indices THEN vec_remove(devices, i) ELSE devices,
                        indices, i - 1)

\* The eviction that follows the push of a new record.
evict_devices(a) ==
    IF Len(a.devices) > MAX_DEVICES
    THEN LET indices == indices_to_remove(a.devices, a.connected_device)
             removed_before_selected ==
                 Cardinality({i \in indices : i < unwrap_or(a.table_state, 0)})
             devices == remove_indices(a.devices, indices, Len(a.devices) - 1)
             selected == unwrap_or(a.table_state, 0)
             new_selected == Min(saturating_sub(selected, removed_before_selected),
                                 saturating_sub(Len(devices), 1))
         IN [a EXCEPT !.devices = devices,
                      !.table_state = IF devices = <<>> THEN None
                                      ELSE Some(new_selected)]
    ELSE a

\* The ids the eviction removes when device is pushed.
evicted_ids(a, device) ==
    IF find_device(a.devices, get_id(device)) # {} THEN {}
    ELSE LET pushed == Append(a.devices, device)
         IN IF Len(pushed) > MAX_DEVICES
            THEN {get_id(At0(pushed, i)) :
                     i \in indices_to_remove(pushed, a.connected_device)}
            ELSE {}

on_device_info(w, device) ==
    LET a == w.app
        found == find_device(a.devices, get_id(device))
        a1 == IF found # {}
              THEN LET i == CHOOSE x \in found : \A y \in found : x <= y
                   IN [a EXCEPT !.devices[i + 1].rssi = device.rssi]
              ELSE evict_devices([a EXCEPT !.devices = Append(a.devices, device)])
        a2 == IF IsNone(a1.table_state) /\ a1.devices # <<>>
              THEN [a1 EXCEPT !.table_state = Some(0)]
              ELSE a1
    IN [w EXCEPT !.app = a2]

\* Mutant of on_characteristics: the device id of the event is not compared.
on_characteristics_any_device(w, device_id, characteristics) ==
    add_log([w EXCEPT !.app.selected_characteristics = characteristics,
                      !.app.is_connected = TRUE,
                      !.app.is_loading = FALSE,
                      !.app.char_table_state =
                          IF characteristics # <<>> THEN Some(0)
                          ELSE w.app.char_table_state],
            "Info", Txt("Connected"))

on_characteristics(w, device_id, characteristics) ==
    IF IsSome(w.app.connected_device)
       /\ get_id(Unwrap(w.app.connected_device)) = device_id
    THEN add_log([w EXCEPT !.app.selected_characteristics = characteristics,
                           !.app.is_connected = TRUE,
                           !.app.is_loading = FALSE,
                           !.app.char_table_state =
                               IF characteristics # <<>> THEN Some(0)
                               ELSE w.app.char_table_state],
                 "Info", Txt("Connected"))
    ELSE w

\* Mutant of on_value: the value is stored whether or not a device is
\* connected.
on_value_unguarded(w, uuid, value) ==
    insert_char_value(add_log(w, "Received", Txt("value")), uuid, value)

\* CharacteristicValue and Notification share their arm's body.
on_value(w, uuid, value) ==
    IF IsSome(w.app.connected_device)
    THEN insert_char_value(add_log(w, "Received", Txt("value")), uuid, value)
    ELSE w

on_write_complete(w) == add_log(w, "Info", Txt("Write complete"))

on_subscribe_complete(w, uuid) ==
    IF IsSome(w.app.connected_device)
    THEN add_log([w EXCEPT !.app.subscribed_chars = @ \cup {uuid}],
                 "Info", Txt("Subscribed to notifications"))
    ELSE w

on_unsubscribe_complete(w, uuid) ==
    IF IsSome(w.app.connected_device)
    THEN add_log([w EXCEPT !.app.subscribed_chars = @ \ {uuid}],
                 "Info", Txt("Unsubscribed from notifications"))
    ELSE w

\* Mutant of on_error: the loading flag is left as it was.
on_error_keeps_loading(w, error) ==
    LET w1 == add_log(w, "Error", error)
        w2 == [w1 EXCEPT !.app.error_message = error,
                         !.app.error_view = TRUE]
    IN IF IsSome(w2.app.connected_device) THEN clear_connection_state(w2) ELSE w2

on_error(w, error) ==
    LET w1 == add_log(w, "Error", error)
        w2 == [w1 EXCEPT !.app.error_message = error,
                         !.app.error_view = TRUE,
                         !.app.is_loading = FALSE]
    IN IF IsSome(w2.app.connected_device) THEN clear_connection_state(w2) ELSE w2

on_info(w, info) == add_log(w, "Info", info)

on_server_log(w, direction, message) == add_log(w, direction, message)

process_message(w, msg) ==
    CASE msg.kind = "DeviceInfo" -> on_device_info(w, DeviceInfo(msg.dev, msg.rssi))
      [] msg.kind = "Characteristics" -> on_characteristics(w, msg.dev, msg.chars)
      [] msg.kind = "CharacteristicValue" -> on_value(w, msg.uuid, msg.value)
      [] msg.kind = "Notification" -> on_value(w, msg.uuid, msg.value)
      [] msg.kind = "WriteComplete" -> on_write_complete(w)
      [] msg.kind = "SubscribeComplete" -> on_subscribe_complete(w, msg.uuid)
      [] msg.kind = "UnsubscribeComplete" -> on_unsubscribe_complete(w, msg.uuid)
      [] msg.kind = "Error" -> on_error(w, msg.text)
      [] msg.kind = "Info" -> on_info(w, msg.text)
      [] msg.kind = "ServerLog" -> on_server_log(w, msg.direction, msg.text)


\* ------------------------------------------------------------------------
\* Key handlers (src/viewer.rs).  A key is its KeyCode; Char carries the
\* UTF-8 bytes of the character.

Key(code) == [code |-> code, ch |-> <<>>]
Char(bytes) == [code |-> "Char", ch |-> bytes]

CH_a == <<97>>
CH_c == <<99>>
CH_d == <<100>>
CH_e == <<101>>
CH_i == <<105>>
CH_j == <<106>>
CH_k == <<107>>
CH_m == <<109>>
CH_n == <<110>>
CH_q == <<113>>
CH_r == <<114>>
CH_s == <<115>>
CH_t == <<116>>
CH_w == <<119>>
CH_x == <<120>>

IsChar(key, bytes) == key.code = "Char" /\ key.ch = bytes

\* Mutant of leave_editing: the buffer and the cursor are kept.
leave_editing_keeps_buffer(w) == [w EXCEPT !.app.input_mode = "Normal"]

leave_editing(w) ==
    [w EXCEPT !.app.input_mode = "Normal",
              !.app.input_buffer = <<>>,
              !.app.cursor_position = 0]

\* KeyCode::Enter of handle_editing_input
editing_enter(w) ==
    IF w.app.mode = "Client"
    THEN LET r == write_selected_characteristic(w)
         IN IF r.w.panicked THEN r.w
            ELSE leave_editing(IF r.ok THEN r.w ELSE add_log(r.w, "Error", Txt("write rejected")))
    ELSE IF w.app.is_advertising
    THEN LET data == parse_input(w.app)
         IN IF data.tag = "Panic" THEN panic(w)
            ELSE leave_editing(IF data.tag = "Ok"
                               THEN set_server_char_value(w, data.bytes)
                               ELSE add_log(w, "Error", Txt("parse error")))
    ELSE LET field == w.app.server_field_focus
         IN IF field \in {"ServiceUuid", "CharUuid"}
               /\ ~uuid_parse_ok(w.app.input_buffer)
            THEN [w EXCEPT !.app.error_message = "Invalid UUID",
                           !.app.error_view = TRUE]
            ELSE leave_editing(set_server_field_value(w, field, w.app.input_buffer))

handle_editing_input(w, key) ==
    CASE key.code = "Esc" -> leave_editing(w)
      [] key.code = "Enter" -> editing_enter(w)
      [] key.code = "Backspace" -> delete_char(w)
      [] key.code = "Char" ->
            IF key.ch = CH_t /\ w.app.input_buffer = <<>>
               /\ (w.app.mode = "Client" \/ w.app.is_advertising)
            THEN toggle_data_format(w)
            ELSE insert_char(w, key.ch)
      [] key.code = "Left" -> cursor_left(w)
      [] key.code = "Right" -> cursor_right(w)
      [] OTHER -> w

\* Down / 'j' and Up / 'k' on a table of n rows, wrapping
\* Mutant of select_next: no wrap to the first row.
select_next_no_wrap(sel, n) ==
    IF IsSome(sel) THEN Some(Unwrap(sel) + 1) ELSE Some(0)

select_next(sel, n) ==
    IF IsSome(sel) THEN (IF Unwrap(sel) >= n - 1 THEN Some(0) ELSE Some(Unwrap(sel) + 1))
    ELSE Some(0)

select_prev(sel, n) ==
    IF IsSome(sel) THEN (IF Unwrap(sel) = 0 THEN Some(n - 1) ELSE Some(Unwrap(sel) - 1))
    ELSE Some(0)

log_scroll_down(w) ==
    [w EXCEPT !.app.log_scroll =
        Min(w.app.log_scroll + 1, saturating_sub(Len(w.app.message_log), 1))]

log_scroll_up(w) ==
    [w EXCEPT !.app.log_scroll = saturating_sub(w.app.log_scroll, 1)]

client_down(w) ==
    CASE w.app.focus = "DeviceList" /\ w.app.devices # <<>> ->
            [w EXCEPT !.app.table_state = select_next(@, Len(w.app.devices))]
      [] w.app.focus = "Characteristics" /\ w.app.selected_characteristics # <<>> ->
            [w EXCEPT !.app.char_table_state =
                select_next(@, Len(w.app.selected_characteristics))]
      [] w.app.focus = "MessageLog" -> log_scroll_down(w)
      [] OTHER -> w

client_up(w) ==
    CASE w.app.focus = "DeviceList" /\ w.app.devices # <<>> ->
            [w EXCEPT !.app.table_state = select_prev(@, Len(w.app.devices))]
      [] w.app.focus = "Characteristics" /\ w.app.selected_characteristics # <<>> ->
            [w EXCEPT !.app.char_table_state =
                select_prev(@, Len(w.app.selected_characteristics))]
      [] w.app.focus = "MessageLog" -> log_scroll_up(w)
      [] OTHER -> w

\* KeyCode::Char('d'): disconnect only while the connected device is selected
client_disconnect_key(w) ==
    LET selected == selected_device(w.app)
        is_viewing_connected ==
            /\ IsSome(selected)
            /\ IsSome(w.app.connected_device)
            /\ get_id(Unwrap(selected)) = get_id(Unwrap(w.app.connected_device))
    IN IF is_viewing_connected THEN disconnect(w) ELSE w

handle_client_input(w, key) ==
    LET a == w.app
    IN CASE IsChar(key, CH_q) -> [w EXCEPT !.app.should_quit = TRUE]
         [] key.code = "Tab" -> cycle_focus(w)
         [] IsChar(key, CH_m) -> toggle_mode(stop_scan(w))
         [] IsChar(key, CH_s) /\ ~a.is_connected ->
               [w EXCEPT !.app.pause_status = ~a.pause_status]
         [] IsChar(key, CH_e) /\ ~a.is_connected ->
               [w EXCEPT !.app.error_message = "export", !.app.error_view = TRUE]
         [] key.code = "Enter" ->
               IF a.focus = "DeviceList" /\ ~a.is_connected THEN connect(w) ELSE w
         [] IsChar(key, CH_c) /\ ~a.is_connected -> connect(w)
         [] IsChar(key, CH_d) /\ a.is_connected -> client_disconnect_key(w)
         [] IsChar(key, CH_r) /\ a.is_connected ->
               add_log(read_selected_characteristic(w), "Info", Txt("Reading"))
         [] IsChar(key, CH_w) /\ a.is_connected ->
               [w EXCEPT !.app.focus = "ReadWrite", !.app.input_mode = "Editing"]
         [] IsChar(key, CH_i) /\ a.is_connected /\ a.focus = "ReadWrite" ->
               [w EXCEPT !.app.input_mode = "Editing"]
         [] IsChar(key, CH_n) /\ a.is_connected ->
               add_log(toggle_subscribe(w), "Info", Txt("Subscribing"))
         [] IsChar(key, CH_t) /\ a.focus = "ReadWrite" -> toggle_data_format(w)
         [] key.code = "Down" \/ IsChar(key, CH_j) -> client_down(w)
         [] key.code = "Up" \/ IsChar(key, CH_k) -> client_up(w)
         [] OTHER -> w

\* started / updated: the outcome of the gateway call the key triggers.
handle_server_input(w, key, gateway_ok) ==
    LET a == w.app
    IN CASE IsChar(key, CH_q) -> [w EXCEPT !.app.should_quit = TRUE]
         [] IsChar(key, CH_m) ->
               scan(toggle_mode(IF a.is_advertising THEN stop_server(w) ELSE w))
         [] IsChar(key, CH_a) /\ ~a.is_advertising -> start_server(w, gateway_ok)
         [] IsChar(key, CH_x) /\ a.is_advertising -> stop_server(w)
         [] IsChar(key, CH_w) /\ a.is_advertising ->
               [w EXCEPT !.app.input_mode = "Editing"]
         [] IsChar(key, CH_n) /\ a.is_advertising -> send_server_notify(w, gateway_ok)
         [] IsChar(key, CH_t) /\ a.is_advertising -> toggle_data_format(w)
         [] key.code = "Enter" /\ ~a.is_advertising ->
               LET current == server_field_value(a, a.server_field_focus)
               IN [w EXCEPT !.app.input_buffer = current,
                            !.app.cursor_position = Len(current),
                            !.app.input_mode = "Editing"]
         [] (key.code = "Down" \/ IsChar(key, CH_j)) /\ ~a.is_advertising ->
               [w EXCEPT !.app.server_field_focus = ServerFieldNext(@)]
         [] (key.code = "Up" \/ IsChar(key, CH_k)) /\ ~a.is_advertising ->
               [w EXCEPT !.app.server_field_focus = ServerFieldPrev(@)]
         [] (key.code = "Down" \/ IsChar(key, CH_j)) /\ a.is_advertising ->
               log_scroll_down(w)
         [] (key.code = "Up" \/ IsChar(key, CH_k)) /\ a.is_advertising ->
               log_scroll_up(w)
         [] OTHER -> w

\* The quit block of viewer: disconnect, stop the scan, stop the server, and
\* await the disconnect operation, which sends its one event before it ends.
quit(w, gateway_ok) ==
    LET had_device == IsSome(w.app.connected_device)
        w1 == IF had_device THEN disconnect(w) ELSE w
        w2 == stop_scan(w1)
        w3 == IF w2.app.is_advertising THEN stop_server(w2) ELSE w2
    IN IF had_device
       THEN send_or_log([w3 EXCEPT !.ops = @ (-) SetToBag({Op("disconnect", 0, 0)})],
                        IF gateway_ok
                        THEN [Msg("Info") EXCEPT !.text = Txt("Disconnected")]
                        ELSE Error(Txt("Disconnect error")))
       ELSE w3

\* While the quit block awaits, before stop_scan sets the pause flag, a scan
\* task that scan() replaced may or may not reach its select and end.
quit_outcomes(w, gateway_ok) ==
    {[quit(w, gateway_ok) EXCEPT !.scan_tasks.orphans = n] :
        n \in 0..quit(w, gateway_ok).scan_tasks.orphans}

\* ------------------------------------------------------------------------
\* Actions.  Step commits the state an operation produced; the operation is
\* not taken when it would exceed a bound of the model.

WithinBounds(w) ==
    /\ Len(w.rx) <= MaxQueue
    /\ BagCardinality(w.ops) <= MaxOps
    /\ w.scan_tasks.orphans < MaxScanTasks
    /\ Len(w.peer_rx) <= MaxPeerQueue

Last(op) == [NoOp EXCEPT !.op = op]

Step(w, next_pc, loading, l) ==
    /\ ~panicked
    /\ WithinBounds(w)
    /\ Commit(w)
    /\ pc' = IF w.panicked THEN "panic" ELSE next_pc
    /\ was_loading' = loading
    /\ last' = l
    /\ UNCHANGED <<responses, appended, discovered>>

\* main(): App::new(), app.scan(), then the viewer loop.
Main ==
    /\ pc = "main"
    /\ Step(scan(World), "poll", was_loading, NoOp)

\* A key while the error modal is shown: Enter and Esc close it, and the
\* loop continues without draining the channel.
DismissError(key) ==
    /\ pc = "poll"
    /\ app.error_view
    /\ Step([World EXCEPT !.app.error_view = ~(key.code \in {"Enter", "Esc"})],
            "poll", was_loading, NoOp)

\* A key in Editing mode; the loop continues without draining the channel.
EditingKey(key) ==
    /\ pc = "poll"
    /\ ~app.error_view
    /\ app.input_mode = "Editing"
    /\ Step(handle_editing_input(World, key), "poll", was_loading,
            Last(key.code))

\* What a key in Normal mode asks for: a connect (the arms that call
\* App::connect), the disconnect key, or quit.
KeyLast(key) ==
    CASE IsChar(key, CH_q) ->
            [Last("quit") EXCEPT !.present = IsSome(app.connected_device),
                                 !.before = app.char_values_order]
      [] app.mode = "Client" /\ ~app.is_connected
         /\ (IsChar(key, CH_c) \/ (key.code = "Enter" /\ app.focus = "DeviceList")) ->
            [Last("connect") EXCEPT !.present = app.is_loading]
      [] app.mode = "Client" /\ IsChar(key, CH_d) ->
            [Last("disconnect_key") EXCEPT
                !.present = (handle_client_input(World, key) # World),
                !.before = app.char_values_order,
                !.subscribed = app.subscribed_chars]
      [] OTHER -> NoOp

\* A key in Normal mode, the quit block, then on to the drain.
NormalKey(key, gateway_ok) ==
    /\ pc = "poll"
    /\ ~app.error_view
    /\ app.input_mode = "Normal"
    /\ LET w1 == IF app.mode = "Client" THEN handle_client_input(World, key)
                 ELSE handle_server_input(World, key, gateway_ok)
       IN IF w1.app.should_quit
          THEN \E w2 \in quit_outcomes(w1, gateway_ok) :
                  Step(w2, "exit", was_loading, KeyLast(key))
          ELSE Step(w1, "drain", w1.app.is_loading, KeyLast(key))

ClientKey(key) ==
    /\ app.mode = "Client"
    /\ NormalKey(key, TRUE)

ServerKey(key, gateway_ok) ==
    /\ app.mode = "Server"
    /\ NormalKey(key, gateway_ok)

RECURSIVE insert_chars(_, _)
insert_chars(w, data) ==
    IF data = <<>> \/ w.panicked THEN w
    ELSE insert_chars(insert_char(w, Head(data)), Tail(data))

\* Event::Paste(data): data is the sequence of its chars.
Paste(data) ==
    /\ pc = "poll"
    /\ LET w1 == IF app.input_mode = "Editing" THEN insert_chars(World, data)
                 ELSE World
       IN Step(w1, "drain", w1.app.is_loading, Last("Paste"))

\* event::poll timed out.
PollTimeout ==
    /\ pc = "poll"
    /\ Step(World, "drain", app.is_loading, NoOp)

MsgLast(msg) ==
    CASE msg.kind = "DeviceInfo" ->
            [Last("DeviceInfo") EXCEPT
                !.evicted = evicted_ids(app, DeviceInfo(msg.dev, msg.rssi)),
                !.uuid = msg.dev,
                !.present = (find_device(app.devices, msg.dev) # {})]
      [] msg.kind \in {"CharacteristicValue", "Notification"}
         /\ IsSome(app.connected_device) ->
            [Last("insert_char_value") EXCEPT
                !.uuid = msg.uuid,
                !.value = msg.value,
                !.present = (msg.uuid \in DOMAIN app.char_values),
                !.before = app.char_values_order]
      [] msg.kind \in {"CharacteristicValue", "Notification",
                       "SubscribeComplete", "UnsubscribeComplete"}
         /\ IsNone(app.connected_device) ->
            [Last("ignored") EXCEPT !.uuid = msg.uuid]
      [] msg.kind = "Characteristics" ->
            [Last("Characteristics") EXCEPT
                !.uuid = msg.dev,
                !.present = (/\ IsSome(app.connected_device)
                             /\ get_id(Unwrap(app.connected_device)) = msg.dev)]
      [] msg.kind = "Error" ->
            [Last("Error") EXCEPT
                !.present = IsSome(app.connected_device),
                !.before = app.char_values_order,
                !.subscribed = app.subscribed_chars]
      [] OTHER -> NoOp

\* One iteration of the while-let of process_channel_messages.
ProcessMessage ==
    /\ pc = "drain"
    /\ rx # <<>>
    /\ Step(process_message([World EXCEPT !.rx = Tail(rx)], Head(rx)),
            "drain", was_loading, MsgLast(Head(rx)))

\* try_recv found the channel empty; viewer restarts the scan after a
\* connection attempt that failed during this tick.
DrainDone ==
    /\ pc = "drain"
    /\ rx = <<>>
    /\ Step(IF was_loading /\ ~app.is_loading /\ ~app.is_connected
            THEN scan(World) ELSE World,
            "poll", was_loading, NoOp)

\* ------------------------------------------------------------------------
\* Background tasks (src/scan.rs)

ScanAlive == scan_tasks.cur = "alive" \/ scan_tasks.orphans > 0

\* A spawned task takes a step; the tasks end with the runtime when main
\* returns.
Background(w) ==
    /\ pc # "exit"
    /\ WithinBounds(w)
    /\ Commit(w)
    /\ UNCHANGED <<pc, was_loading, responses, appended, discovered>>
    /\ last' = NoOp

\* bluetooth_scan reports a discovered or updated device.
ScanDiscover(id, rssi) ==
    /\ ScanAlive
    /\ ~app.pause_status
    /\ Background(send_or_log(World,
           [Msg("DeviceInfo") EXCEPT !.dev = id, !.rssi = rssi]))

\* bluetooth_scan reports a device, and the report is recorded: discovered
\* lists the ids reported, the id of the latest report last.
ScanDiscoverRecorded(id, rssi) ==
    /\ ScanAlive
    /\ ~app.pause_status
    /\ pc # "exit"
    /\ LET w == send_or_log(World, [Msg("DeviceInfo") EXCEPT !.dev = id, !.rssi = rssi])
       IN /\ WithinBounds(w)
          /\ Commit(w)
    /\ discovered' = Append(retain_ne(discovered, id), id)
    /\ last' = NoOp
    /\ UNCHANGED <<pc, was_loading, responses, appended>>

\* ------------------------------------------------------------------------
\* bluetooth_scan statement by statement (src/scan.rs).  t is the record of
\* the task: at is the statement it is at, scanning its local flag, which
\* follows the underlying scan, signal the state of its shutdown channel.

\* The task returns.
scan_exit(t, how) == [t EXCEPT !.cur = "none", !.at = how]

\* Mutant of scan_loop_top: the shutdown channel is not polled at the top
\* of the loop.
scan_loop_top_no_poll(t) == [t EXCEPT !.at = "pause"]

\* if shutdown.try_recv().is_ok() { stop the scan; break }
scan_loop_top(t) ==
    IF t.signal = "sent"
    THEN scan_exit([t EXCEPT !.scanning = FALSE], "stopped")
    ELSE [t EXCEPT !.at = "pause"]

\* Mutant of scan_loop_pause: a paused task sleeps without stopping the
\* underlying scan.
scan_loop_pause_keeps_scanning(t, paused) ==
    IF paused
    THEN [t EXCEPT !.at = "sleep"]
    ELSE [t EXCEPT !.scanning = TRUE, !.at = "select"]

\* if pause_signal.load() { stop the scan; sleep; continue }, and otherwise
\* if !scanning { start the scan }
scan_loop_pause(t, paused) ==
    IF paused
    THEN [t EXCEPT !.scanning = FALSE, !.at = "sleep"]
    ELSE [t EXCEPT !.scanning = TRUE, !.at = "select"]

\* tokio::select!: the branch that completes
scan_loop_select(t, branch) ==
    CASE branch = "shutdown" -> scan_exit([t EXCEPT !.scanning = FALSE], "stopped")
      [] branch = "end" -> scan_exit(t, "ended")
      [] OTHER -> [t EXCEPT !.at = "top"]

ScanTaskAt(at) == scan_tasks.cur = "alive" /\ scan_tasks.at = at

\* Manager::new() up to central.events(): outcome is "ok", "failed" (before
\* the scan was started) or "no_events" (after it was started).
ScanInit(outcome) ==
    /\ ScanTaskAt("init")
    /\ Background(
          IF outcome = "ok"
          THEN [World EXCEPT !.scan_tasks.at = "top", !.scan_tasks.scanning = TRUE]
          ELSE send_or_log(
                 [World EXCEPT !.scan_tasks =
                     scan_exit([@ EXCEPT !.scanning = (outcome = "no_events")],
                               "ended")],
                 Error(Txt("Scan start failed"))))

ScanLoopTop ==
    /\ ScanTaskAt("top")
    /\ Background([World EXCEPT !.scan_tasks = scan_loop_top(@)])

ScanLoopPause ==
    /\ ScanTaskAt("pause")
    /\ Background([World EXCEPT !.scan_tasks = scan_loop_pause(@, app.pause_status)])

\* tokio::time::sleep(100 ms) is over.
ScanLoopSleep ==
    /\ ScanTaskAt("sleep")
    /\ Background([World EXCEPT !.scan_tasks.at = "top"])

\* The shutdown branch is ready once the signal was sent; the event branch
\* reports a discovered or updated device; "other" is an event of another
\* kind or the 200 ms sleep; "end" is the end of the event stream.
ScanLoopSelect(branch, id) ==
    /\ ScanTaskAt("select")
    /\ branch = "shutdown" => scan_tasks.signal = "sent"
    /\ LET w == [World EXCEPT !.scan_tasks = scan_loop_select(@, branch)]
       IN Background(IF branch = "event"
                     THEN send_or_log(w, [Msg("DeviceInfo") EXCEPT
                                             !.dev = id, !.rssi = 1])
                     ELSE w)

ScanTaskStep ==
    \/ \E outcome \in {"ok", "failed", "no_events"} : ScanInit(outcome)
    \/ ScanLoopTop
    \/ ScanLoopPause
    \/ ScanLoopSleep
    \/ \E branch \in {"shutdown", "event", "other", "end"} : ScanLoopSelect(branch, 1)

\* KeyCode::Char('m') of handle_client_input, up to the await of stop_scan.
StopScanSend ==
    /\ pc = "poll"
    /\ ~app.error_view
    /\ app.input_mode = "Normal"
    /\ app.mode = "Client"
    /\ Step(stop_scan_send(World), "stop_scan", was_loading, Last("stop_scan"))

\* The handle awaited by stop_scan is ready: the rest of the 'm' arm.
StopScanReturn ==
    /\ pc = "stop_scan"
    /\ IsSome(app.scan_handle) => scan_tasks.cur = "none"
    /\ LET w == toggle_mode(stop_scan_return(World))
       IN Step(w, "drain", w.app.is_loading, NoOp)

\* A scan task whose shutdown sender was dropped leaves its select.
ScanOrphanExit ==
    /\ scan_tasks.orphans > 0
    /\ ~app.pause_status
    /\ Background([World EXCEPT !.scan_tasks.orphans = @ - 1])

finish(w, op) == [w EXCEPT !.ops = @ (-) SetToBag({op})]

Pending(kind) == {op \in BagToSet(ops) : op.kind = kind}

\* connect_device: discovery succeeded; the notification listener starts.
ConnectOk(op, characteristics) ==
    /\ op \in Pending("connect")
    /\ Background(spawn(send_or_log(finish(World, op),
                            [Msg("Characteristics") EXCEPT
                                !.dev = op.dev, !.chars = characteristics]),
                        Op("listen", 0, 0)))

\* Mutant of ConnectFail: the operation ends without an event.
ConnectFailSilent(op) ==
    /\ op \in Pending("connect")
    /\ Background(finish(World, op))

\* connect_device: timeout, connection error or discovery failure.
ConnectFail(op) ==
    /\ op \in Pending("connect")
    /\ Background(send_or_log(finish(World, op), Error(Txt("Connection error"))))

\* The notification listener forwards one notification.
Notify(op, uuid, value) ==
    /\ op \in Pending("listen")
    /\ Background(send_or_log(World,
           [Msg("Notification") EXCEPT !.uuid = uuid, !.value = value]))

\* The notification stream ends (or could not be opened: failed).
ListenEnd(op, failed) ==
    /\ op \in Pending("listen")
    /\ Background(IF failed
                  THEN send_or_log(finish(World, op), Error(Txt("Notification stream failed")))
                  ELSE finish(World, op))

\* read_characteristic_value
ReadDone(op, ok, value) ==
    /\ op \in Pending("read")
    /\ Background(send_or_log(finish(World, op),
           IF ok THEN [Msg("CharacteristicValue") EXCEPT
                          !.uuid = op.uuid, !.value = value]
           ELSE Error(Txt("Read error"))))

\* What device.write answers: "Ok" or the text of its error.
WriteAnswers == {"Ok", "NotPermitted", "NotSupported"}

\* Mutant of write_characteristic_value: no second attempt; the failure of
\* the first is reported at once.
write_characteristic_value_no_fallback(uuid, with_response, without_response) ==
    [writes |-> <<[write_type |-> "WithResponse", answer |-> with_response]>>,
     events |-> IF with_response = "Ok"
                THEN <<[Msg("WriteComplete") EXCEPT !.uuid = uuid]>>
                ELSE <<Error("Write error: " \o with_response)>>]

\* write_characteristic_value: the writes it makes on the device, given
\* what the device answers to each write type, and the events it sends.
write_characteristic_value(uuid, with_response, without_response) ==
    IF with_response = "Ok"
    THEN [writes |-> <<[write_type |-> "WithResponse", answer |-> with_response]>>,
          events |-> <<[Msg("WriteComplete") EXCEPT !.uuid = uuid]>>]
    ELSE [writes |-> <<[write_type |-> "WithResponse", answer |-> with_response],
                       [write_type |-> "WithoutResponse", answer |-> without_response]>>,
          events |->
              IF without_response = "Ok"
              THEN <<[Msg("WriteComplete") EXCEPT !.uuid = uuid]>>
              ELSE <<Error("Write error: WithResponse: " \o with_response
                           \o "; WithoutResponse: " \o without_response)>>]

RECURSIVE send_all(_, _)
send_all(w, events) ==
    IF events = <<>> THEN w
    ELSE send_all(send_or_log(w, Head(events)), Tail(events))

WriteDone(op, with_response, without_response) ==
    /\ op \in Pending("write")
    /\ pc # "exit"
    /\ LET r == write_characteristic_value(op.uuid, with_response, without_response)
           w == send_all(finish(World, op), r.events)
       IN /\ WithinBounds(w)
          /\ Commit(w)
          /\ last' = [Last("write_characteristic_value") EXCEPT
                         !.uuid = op.uuid, !.writes = r.writes]
          /\ UNCHANGED <<pc, was_loading, responses, appended, discovered>>

SubscribeDone(op, ok) ==
    /\ op \in Pending("subscribe")
    /\ Background(send_or_log(finish(World, op),
           IF ok THEN [Msg("SubscribeComplete") EXCEPT !.uuid = op.uuid]
           ELSE Error(Txt("Subscribe error"))))

UnsubscribeDone(op, ok) ==
    /\ op \in Pending("unsubscribe")
    /\ Background(send_or_log(finish(World, op),
           IF ok THEN [Msg("UnsubscribeComplete") EXCEPT !.uuid = op.uuid]
           ELSE Error(Txt("Unsubscribe error"))))

DisconnectDone(op, ok) ==
    /\ op \in Pending("disconnect")
    /\ Background(send_or_log(finish(World, op),
           IF ok THEN [Msg("Info") EXCEPT !.text = Txt("Disconnected")]
           ELSE Error(Txt("Disconnect error"))))

\* ------------------------------------------------------------------------
\* The attribute server's request-handling task (src/server.rs)

\* The peripheral queues an event of a peer for the task of start_server.
PeerRequest(ev) ==
    /\ IsSome(app.server_handle)
    /\ Background([World EXCEPT !.peer_rx = Append(@, ev)])

\* The task of start_server handles the oldest queued event.
PeerHandle ==
    /\ pc # "exit"
    /\ peer_rx # <<>>
    /\ LET ev == Head(peer_rx)
           r == handle_peripheral_event([World EXCEPT !.peer_rx = Tail(peer_rx)], ev)
       IN /\ WithinBounds(r.w)
          /\ Commit(r.w)
          /\ responses' = <<r.resp>>
          /\ last' = [Last(ev.kind) EXCEPT !.offset = ev.offset,
                                           !.value = ev.value,
                                           !.before = server_shared_value]
          /\ UNCHANGED <<pc, was_loading, appended, discovered>>


\* ------------------------------------------------------------------------
\* add_log called on its own, as the tests of src/app.rs do: the message of
\* the n-th call is the text of n.

Directions == {"Sent", "Received", "Info", "Error"}

AppendLog(direction) ==
    /\ ~panicked
    /\ appended < MaxAppends
    /\ Commit(add_log(World, direction, ToString(appended + 1)))
    /\ appended' = appended + 1
    /\ last' = Last("add_log")
    /\ UNCHANGED <<pc, was_loading, responses, discovered>>

\* ------------------------------------------------------------------------
\* Specifications.  Each one runs the event loop with the commands and the
\* gateway behaviour of one part of the session.

Loop == Main \/ PollTimeout \/ ProcessMessage \/ DrainDone

\* Discovery, connection and the device registry.
RegistryKeys == {Char(CH_c), Char(CH_d), Key("Down"), Char(CH_m)}

NextRegistry ==
    \/ Loop
    \/ \E key \in RegistryKeys : ClientKey(key)
    \/ ServerKey(Char(CH_m), TRUE)
    \/ DismissError(Key("Enter"))
    \/ \E id \in DeviceIds, rssi \in Rssis : ScanDiscover(id, rssi)
    \/ ScanOrphanExit
    \/ \E op \in BagToSet(ops) : ConnectOk(op, <<>>)
    \/ \E op \in BagToSet(ops) : ConnectFail(op)
    \/ \E op \in BagToSet(ops) : ListenEnd(op, FALSE)
    \/ \E op \in BagToSet(ops), ok \in BOOLEAN : DisconnectDone(op, ok)

SpecRegistry == Init /\ [][NextRegistry]_vars


\* Reads, notifications and the attribute value cache of one device.
CacheKeys == {Char(CH_c), Char(CH_d), Char(CH_r), Char(CH_n)}

NextCache ==
    \/ Loop
    \/ \E key \in CacheKeys : ClientKey(key)
    \/ DismissError(Key("Enter"))
    \/ ScanDiscover(1, 1)
    \/ \E op \in BagToSet(ops) : ConnectOk(op, <<1, 2>>)
    \/ \E op \in BagToSet(ops) : ConnectFail(op)
    \/ \E op \in BagToSet(ops), uuid \in Uuids, value \in RemoteValues :
          Notify(op, uuid, value)
    \/ \E op \in BagToSet(ops), failed \in BOOLEAN : ListenEnd(op, failed)
    \/ \E op \in BagToSet(ops), ok \in BOOLEAN, value \in RemoteValues :
          ReadDone(op, ok, value)
    \/ \E op \in BagToSet(ops), ok \in BOOLEAN : SubscribeDone(op, ok)
    \/ \E op \in BagToSet(ops), ok \in BOOLEAN : UnsubscribeDone(op, ok)
    \/ \E op \in BagToSet(ops) : DisconnectDone(op, TRUE)

SpecCache == Init /\ [][NextCache]_vars

\* The message log under add_log.
NextLog == Main \/ \E direction \in Directions : AppendLog(direction)

SpecLog == Init /\ [][NextLog]_vars

\* The line editor of the client, reached by 'w' while connected.
CH_4 == <<52>>
CH_e_acute == <<195, 169>>
CH_grinning == <<240, 159, 152, 128>>

InputChars == {CH_4, CH_e_acute, CH_grinning}
PasteData == {<<CH_e_acute, CH_4>>, <<CH_4, CH_grinning>>}
EditKeys ==
    {Char(c) : c \in InputChars}
    \cup {Key("Backspace"), Key("Left"), Key("Right"), Key("Enter"), Key("Esc")}

NextInput ==
    \/ Loop
    \/ \E key \in {Char(CH_c), Char(CH_w), Char(CH_d), Char(CH_t)} : ClientKey(key)
    \/ \E key \in EditKeys : EditingKey(key)
    \/ \E data \in PasteData : Paste(data)
    \/ ScanDiscover(1, 1)
    \/ \E op \in BagToSet(ops) : ConnectOk(op, <<1>>)
    \/ \E op \in BagToSet(ops) : ListenEnd(op, FALSE)
    \/ \E op \in BagToSet(ops), with_response \in WriteAnswers,
          without_response \in WriteAnswers :
          WriteDone(op, with_response, without_response)
    \/ \E op \in BagToSet(ops) : DisconnectDone(op, TRUE)

SpecInput == Init /\ [][NextInput]_vars

\* The attribute server: the user starts and stops it and sets the value,
\* peers read and write it.
PeerOffsets == {0, 2, MAX_CHARACTERISTIC_SIZE + 1, USIZE_MAX + 1}
PeerValues == {<<>>, <<1>>, <<80, 222>>}
PeerEvents ==
    {PeerEvent("WriteRequest", o, v) : o \in PeerOffsets, v \in PeerValues}
    \cup {PeerEvent("ReadRequest", o, <<>>) : o \in {0, 2, USIZE_MAX + 1}}
    \cup {PeerEvent("StateUpdate", 0, <<>>),
          PeerEvent("SubscriptionUpdate", 0, <<>>)}

ServerEditKeys == {Char(CH_grinning), Char(CH_t), Key("Enter"), Key("Esc")}

NextServer ==
    \/ Loop
    \/ ClientKey(Char(CH_m))
    \/ \E key \in {Char(CH_a), Char(CH_x), Char(CH_w)} : ServerKey(key, TRUE)
    \/ \E key \in ServerEditKeys : EditingKey(key)
    \/ \E ev \in PeerEvents : PeerRequest(ev)
    \/ PeerHandle

SpecServer == Init /\ [][NextServer]_vars

\* The scan task, its pause flag and its shutdown.
NextScanTask ==
    \/ Loop
    \/ ClientKey(Char(CH_s))
    \/ StopScanSend
    \/ StopScanReturn
    \/ ServerKey(Char(CH_m), TRUE)
    \/ DismissError(Key("Enter"))
    \/ ScanTaskStep

SpecScanTask == Init /\ [][NextScanTask]_vars

\* The runtime schedules a spawned task that can run, and the main loop
\* resumes when the handle it awaits is ready.
SpecScanTaskFair ==
    SpecScanTask /\ WF_vars(ScanTaskStep) /\ WF_vars(StopScanReturn)

\* The registry with every discovery recorded.
NextFreshness ==
    \/ Loop
    \/ ClientKey(Char(CH_c))
    \/ ClientKey(Char(CH_d))
    \/ \E id \in DeviceIds : ScanDiscoverRecorded(id, 1)
    \/ \E op \in BagToSet(ops) : ConnectOk(op, <<>>)
    \/ \E op \in BagToSet(ops) : DisconnectDone(op, TRUE)

SpecFreshness == Init /\ [][NextFreshness]_vars

\* Entering and leaving the line editor in both roles.
NextInputMode ==
    \/ Loop
    \/ \E key \in {Char(CH_c), Char(CH_w), Char(CH_d), Char(CH_m)} : ClientKey(key)
    \/ \E key \in {Char(CH_m), Key("Enter")} : ServerKey(key, TRUE)
    \/ \E key \in {Char(CH_4), Key("Backspace"), Key("Enter"), Key("Esc")} :
          EditingKey(key)
    \/ app.mode = "Client" /\ Paste(<<CH_e_acute, CH_4>>)
    \/ ScanDiscover(1, 1)
    \/ \E op \in BagToSet(ops) : ConnectOk(op, <<1>>)
    \/ \E op \in BagToSet(ops) : ListenEnd(op, TRUE)
    \/ \E op \in BagToSet(ops) : DisconnectDone(op, TRUE)

SpecInputMode == Init /\ [][NextInputMode]_vars

\* A connection attempt from the command to its outcome.
ConnectReturns ==
    \E op \in BagToSet(ops) : ConnectOk(op, <<1>>) \/ ConnectFail(op)

NextConnect ==
    \/ Loop
    \/ \E key \in {Char(CH_c), Char(CH_d), Char(CH_m)} : ClientKey(key)
    \/ ServerKey(Char(CH_m), TRUE)
    \/ DismissError(Key("Enter"))
    \/ ScanDiscover(1, 1)
    \/ ConnectReturns
    \/ \E op \in BagToSet(ops) : ListenEnd(op, TRUE)
    \/ \E op \in BagToSet(ops) : DisconnectDone(op, FALSE)

SpecConnect == Init /\ [][NextConnect]_vars

\* The loop keeps polling and draining, and every gateway call of a connect
\* operation returns; the channel being unbounded, the send of its event is
\* not put off forever by the bound of the queue.
SpecConnectFair ==
    /\ SpecConnect
    /\ WF_vars(PollTimeout)
    /\ WF_vars(ProcessMessage)
    /\ WF_vars(DrainDone)
    /\ SF_vars(ConnectReturns)

\* Committing a buffer with Enter: a value for the remote attribute, a value
\* for the server's store, or a configuration field of the server.
\* In the client role the user also types a multi-byte character and
\* switches the data format.
CommitEditKeys == {Char(CH_4), Key("Enter"), Key("Esc")}
CommitClientEditKeys == {Char(CH_grinning), Char(CH_t)}

NextCommit ==
    \/ Loop
    \/ \E key \in {Char(CH_c), Char(CH_w), Char(CH_m)} : ClientKey(key)
    \/ \E key \in {Char(CH_a), Char(CH_w), Char(CH_m), Key("Enter"), Key("Down")} :
          ServerKey(key, TRUE)
    \/ \E key \in CommitEditKeys : EditingKey(key)
    \/ \E key \in CommitClientEditKeys : app.mode = "Client" /\ EditingKey(key)
    \/ DismissError(Key("Enter"))
    \/ ScanDiscover(1, 1)
    \/ \E op \in BagToSet(ops) : ConnectOk(op, <<1>>)
    \/ \E op \in BagToSet(ops) : WriteDone(op, "Ok", "Ok")

SpecCommit == Init /\ [][NextCommit]_vars

\* The session: scanning, connecting, disconnecting, changing role and
\* quitting, with the outcomes of the background operations.
SessionDeviceIds == 1..2
SessionKeys == {Char(CH_c), Char(CH_d), Char(CH_q), Char(CH_m), Key("Down")}

NextSession ==
    \/ Loop
    \/ \E key \in SessionKeys : ClientKey(key)
    \/ ServerKey(Char(CH_m), TRUE)
    \/ DismissError(Key("Enter"))
    \/ \E id \in SessionDeviceIds : ScanDiscover(id, 1)
    \/ ScanOrphanExit
    \/ \E op \in BagToSet(ops) : ConnectOk(op, <<1>>)
    \/ \E op \in BagToSet(ops) : ConnectFail(op)
    \/ \E op \in BagToSet(ops), failed \in BOOLEAN : ListenEnd(op, failed)
    \/ \E op \in BagToSet(ops), ok \in BOOLEAN : DisconnectDone(op, ok)

SpecSession == Init /\ [][NextSession]_vars

\* ------------------------------------------------------------------------
\* Properties

DeviceIdsOf(devices) == {get_id(devices[i]) : i \in 1..Len(devices)}

\* C1: after a device-discovered event has been processed, the registry
\* holds at most MAX_DEVICES records.
C1_RegistryBounded ==
    last.op = "DeviceInfo" => Len(app.devices) <= MAX_DEVICES

\* C2: no step removes from the registry the record of the connecting or
\* connected device.
C2_ConnectedNeverEvicted ==
    [][(/\ IsSome(app.connected_device)
        /\ get_id(Unwrap(app.connected_device)) \in DeviceIdsOf(app.devices))
       => get_id(Unwrap(app.connected_device)) \in DeviceIdsOf(app'.devices)]_vars

\* The eviction ran on a new device and left the registry over capacity,
\* the connected device being the one record it would have removed.
C2_Witness ==
    /\ last.op = "DeviceInfo"
    /\ ~last.present
    /\ IsSome(app.connected_device)
    /\ Len(app.devices) > MAX_DEVICES
    /\ get_id(At0(app.devices, 0)) = get_id(Unwrap(app.connected_device))

\* C3: the cache holds at most MAX_CHAR_VALUES entries and the ledger lists
\* exactly its keys, each once.
C3_CacheBoundedLedgerExact ==
    /\ Cardinality(DOMAIN app.char_values) <= MAX_CHAR_VALUES
    /\ Range(app.char_values_order) = DOMAIN app.char_values
    /\ Len(app.char_values_order) = Cardinality(DOMAIN app.char_values)

\* A new uuid was inserted into a full cache.
C3_Witness ==
    /\ last.op = "insert_char_value"
    /\ ~last.present
    /\ Len(last.before) = MAX_CHAR_VALUES
    /\ Cardinality(DOMAIN app.char_values) = MAX_CHAR_VALUES

\* C4: inserting a uuid that is already cached keeps the size, stores the
\* new value and moves the uuid to the newest ledger position, the other
\* uuids keeping their order.
C4_ReinsertRefreshes ==
    (last.op = "insert_char_value" /\ last.present) =>
        /\ Cardinality(DOMAIN app.char_values) = Len(last.before)
        /\ last.uuid \in DOMAIN app.char_values
        /\ app.char_values[last.uuid] = last.value
        /\ app.char_values_order =
               SelectSeq(last.before, LAMBDA u : u # last.uuid) \o <<last.uuid>>

\* The oldest uuid of a full cache was inserted again.
C4_Witness ==
    /\ last.op = "insert_char_value"
    /\ last.present
    /\ Len(last.before) = MAX_CHAR_VALUES
    /\ Head(last.before) = last.uuid

\* C5: the log holds the last MAX_LOG_ENTRIES entries appended, oldest
\* first, and never more than MAX_LOG_ENTRIES.
C5_LogKeepsNewest ==
    LET n == Len(app.message_log)
    IN /\ n = Min(appended, MAX_LOG_ENTRIES)
       /\ \A i \in 1..n : app.message_log[i].message = ToString(appended - n + i)

\* More than MAX_LOG_ENTRIES entries were appended.
C5_Witness ==
    /\ last.op = "add_log"
    /\ appended >= MAX_LOG_ENTRIES + 2
    /\ Len(app.message_log) = MAX_LOG_ENTRIES

\* C6: the input buffer never holds more than MAX_INPUT_LEN bytes.
C6_BufferBounded == Len(app.input_buffer) <= MAX_INPUT_LEN

\* C7: the cursor is within the buffer and on a code-point boundary.
C7_CursorOnBoundary ==
    LET buf == app.input_buffer
        cur == app.cursor_position
    IN /\ 0 <= cur
       /\ cur <= Len(buf)
       /\ cur < Len(buf) => ~(buf[cur + 1] >= 128 /\ buf[cur + 1] <= 191)

\* The cursor moved left to stand between two multi-byte code points.
C7_Witness ==
    /\ last.op = "Left"
    /\ app.cursor_position > 0
    /\ app.cursor_position < Len(app.input_buffer)
    /\ app.input_buffer[app.cursor_position] >= 128
    /\ app.input_buffer[app.cursor_position + 1] >= 192

\* C8: the value store of the attribute server never holds more than
\* MAX_CHARACTERISTIC_SIZE bytes.
C8_StoreBounded == Len(server_shared_value) <= MAX_CHARACTERISTIC_SIZE

\* The user set a value longer than the capacity; its first
\* MAX_CHARACTERISTIC_SIZE bytes were stored.
C8_Witness ==
    /\ last.op = "Enter"
    /\ Len(server_shared_value) = MAX_CHARACTERISTIC_SIZE
    /\ server_shared_value = take(CH_grinning, MAX_CHARACTERISTIC_SIZE)

WriteResponse(response) ==
    <<[kind |-> "Write", response |-> response, value |-> <<>>]>>

\* C9: a write whose offset, or whose offset plus length, exceeds
\* MAX_CHARACTERISTIC_SIZE is answered InvalidOffset and leaves the store
\* as it was.
C9_OutOfRangeWriteRejected ==
    (/\ last.op = "WriteRequest"
     /\ \/ last.offset > MAX_CHARACTERISTIC_SIZE
        \/ last.offset + Len(last.value) > MAX_CHARACTERISTIC_SIZE) =>
        /\ responses = WriteResponse("InvalidOffset")
        /\ server_shared_value = last.before

\* A write that starts inside the capacity and ends beyond it was rejected
\* while the store held a value.
C9_Witness ==
    /\ last.op = "WriteRequest"
    /\ last.offset <= MAX_CHARACTERISTIC_SIZE
    /\ last.offset + Len(last.value) > MAX_CHARACTERISTIC_SIZE
    /\ last.before # <<>>
    /\ responses = WriteResponse("InvalidOffset")

\* C10: an accepted write is answered Success; at offset 0 the store becomes
\* the payload, otherwise the old value, zero-extended to reach the end of
\* the write, with the payload written over [offset, offset + length).
C10_AcceptedWriteStored ==
    (/\ last.op = "WriteRequest"
     /\ last.offset + Len(last.value) <= MAX_CHARACTERISTIC_SIZE) =>
        LET old == last.before
            o == last.offset
            p == last.value
        IN /\ responses = WriteResponse("Success")
           /\ server_shared_value =
                  IF o = 0 THEN p
                  ELSE [i \in 1..Max(Len(old), o + Len(p)) |->
                           IF i > o /\ i <= o + Len(p) THEN p[i - o]
                           ELSE IF i <= Len(old) THEN old[i]
                           ELSE 0]

\* A write beyond the end of a non-empty store was accepted, leaving a gap
\* of zero bytes.
C10_Witness ==
    /\ last.op = "WriteRequest"
    /\ last.before # <<>>
    /\ last.offset > Len(last.before)
    /\ last.value # <<>>
    /\ responses = WriteResponse("Success")
    /\ Len(server_shared_value) = last.offset + Len(last.value)

\* C11: a read request is answered Success with the bytes of the store
\* from the offset on, with nothing when the offset is at or past the end,
\* and leaves the store as it was.
C11_ReadAnswersTail ==
    last.op = "ReadRequest" =>
        LET store == last.before
            o == last.offset
        IN /\ responses =
                  <<[kind |-> "Read", response |-> "Success",
                     value |-> IF o >= Len(store) THEN <<>>
                               ELSE [i \in 1..(Len(store) - o) |-> store[o + i]]]>>
           /\ server_shared_value = store

\* A read from inside a stored value returned its tail.
C11_Witness ==
    /\ last.op = "ReadRequest"
    /\ last.offset > 0
    /\ last.offset < Len(last.before)
    /\ responses[1].value = <<last.before[Len(last.before)]>>

\* C12: a connect command while a connection attempt is loading starts no
\* operation, leaves the scan task alone and changes no field of the session.
C12_ConnectWhileConnectingRejected ==
    [][(last'.op = "connect" /\ app.is_loading) =>
           /\ app' = app
           /\ ops' = ops
           /\ scan_tasks' = scan_tasks
           /\ rx' = rx]_vars

\* A connect command was given while a connection attempt was loading.
C12_Witness ==
    /\ last.op = "connect"
    /\ last.present
    /\ app.is_loading
    /\ IsSome(app.connected_device)
    /\ Pending("connect") # {}

\* The log after one entry was appended to it.
LogAfter(log, direction) ==
    LET pushed == log \o <<LogEntry(direction, Txt("message"))>>
        first == IF Len(pushed) > MAX_LOG_ENTRIES
                 THEN Len(pushed) - MAX_LOG_ENTRIES + 1 ELSE 1
    IN [i \in 1..(Len(pushed) - first + 1) |-> pushed[first + i - 1]]

\* C13: an attributes-discovered event is applied exactly when its device
\* id is the id of the connecting or connected device: the records become
\* the event's list, the session is connected and no longer loading, and
\* one Info entry is logged.  Any other such event changes nothing.
C13_CharacteristicsOnlyForConnectedDevice ==
    [][(rx # <<>> /\ last'.op = "Characteristics") =>
           LET msg == Head(rx)
               matches == /\ app.connected_device # <<>>
                          /\ app.connected_device[1].id = msg.dev
           IN IF matches
              THEN /\ app'.selected_characteristics = msg.chars
                   /\ app'.is_connected
                   /\ ~app'.is_loading
                   /\ app'.connected_device = app.connected_device
                   /\ app'.message_log = LogAfter(app.message_log, "Info")
              ELSE app' = app]_vars

\* A stale attributes-discovered event of another device was ignored while
\* a device was connecting or connected.
C13_Witness ==
    /\ last.op = "Characteristics"
    /\ ~last.present
    /\ IsSome(app.connected_device)
    /\ get_id(Unwrap(app.connected_device)) # last.uuid

\* C14: processing an Error event while the session is connecting or
\* connected leaves it disconnected with the attribute records, the value
\* cache (map and ledger) and the subscription set empty, appends one Error
\* log entry and raises the modal, whichever operation sent the error.
C14_ErrorClearsConnectionState ==
    [][(rx # <<>> /\ last'.op = "Error" /\ (app.is_loading \/ app.is_connected)) =>
           /\ app'.connected_device = None
           /\ ~app'.is_connected
           /\ ~app'.is_loading
           /\ app'.selected_characteristics = <<>>
           /\ DOMAIN app'.char_values = {}
           /\ app'.char_values_order = <<>>
           /\ app'.subscribed_chars = {}
           /\ app'.error_view
           /\ app'.message_log = LogAfter(app.message_log, "Error")]_vars

\* An Error event was processed while connected with a non-empty value
\* cache and a non-empty subscription set.
C14_Witness ==
    /\ last.op = "Error"
    /\ last.present
    /\ last.before # <<>>
    /\ last.subscribed # {}
    /\ app.subscribed_chars = {}
    /\ app.char_values_order = <<>>
    /\ app.connected_device = None

\* C15: a disconnect from Connected leaves the session, in the same step
\* and with the background disconnect operation still in flight,
\* disconnected with attribute records, value cache, subscription set and
\* input buffer empty, and a scan task started with the pause flag cleared.
C15_DisconnectClearsAtOnce ==
    [][(/\ last'.op = "disconnect_key"
        /\ app.is_connected
        /\ IsSome(selected_device(app))
        /\ IsSome(app.connected_device)
        /\ get_id(Unwrap(selected_device(app))) = get_id(Unwrap(app.connected_device))) =>
           /\ ops' = ops (+) SetToBag({Op("disconnect", 0, 0)})
           /\ app'.connected_device = None
           /\ ~app'.is_connected
           /\ ~app'.is_loading
           /\ app'.selected_characteristics = <<>>
           /\ DOMAIN app'.char_values = {}
           /\ app'.char_values_order = <<>>
           /\ app'.subscribed_chars = {}
           /\ app'.input_buffer = <<>>
           /\ ~app'.pause_status
           /\ scan_tasks'.cur = "alive"]_vars

\* The disconnect key was pressed while connected with a non-empty value
\* cache and a non-empty subscription set; the disconnect operation is
\* still in flight.
C15_Witness ==
    /\ last.op = "disconnect_key"
    /\ last.present
    /\ last.before # <<>>
    /\ last.subscribed # {}
    /\ app.subscribed_chars = {}
    /\ Pending("disconnect") # {}
    /\ ~app.is_connected
    /\ app.char_values_order = <<>>
    /\ scan_tasks.cur = "alive"

\* C16: disconnect takes effect only from Connected: while the session is
\* disconnected or connecting, neither the disconnect key nor quit starts a
\* background disconnect operation, clears the connecting device or logs a
\* disconnect.
C16_DisconnectOnlyFromConnected ==
    [][(~app.is_connected /\ last'.op \in {"disconnect_key", "quit"}) =>
           /\ app'.connected_device = app.connected_device
           /\ app'.message_log = app.message_log
           /\ ops' = ops
           /\ rx' = rx]_vars

\* The scan tasks that were spawned and have not terminated.
ScanTasksAlive ==
    (IF scan_tasks.cur = "alive" THEN 1 ELSE 0) + scan_tasks.orphans

\* C17: at every moment at most one scan task is alive.
C17_OneScanTask == ScanTasksAlive <= 1

\* The connect operations that were spawned and have not finished.
ConnectsInFlight ==
    BagCardinality([op \in Pending("connect") |-> CopiesIn(op, ops)])

\* C18: at every moment at most one background connect operation is in
\* flight.
C18_OneConnectInFlight == ConnectsInFlight <= 1

\* C19: while the session is connecting, no device-discovered event is
\* applied to the device registry.
C19_NoDiscoveryWhileConnecting ==
    [][(rx # <<>> /\ last'.op = "DeviceInfo" /\ app.is_loading) =>
           app'.devices = app.devices]_vars

\* C20: when the event loop has returned after a quit command, no scan
\* task started by the session is alive and the attribute server is stopped.
C20_QuitLeavesNothingAlive ==
    pc = "exit" => ScanTasksAlive = 0 /\ ~app.is_advertising

\* C21: a connect command while the device registry is empty starts no
\* background operation, leaves the session disconnected and the scan task
\* as it was, and raises the error modal with the message "No device
\* selected".
C21_ConnectWithoutDevice ==
    [][(last'.op = "connect" /\ app.devices = <<>>) =>
           /\ ops' = ops
           /\ rx' = rx
           /\ scan_tasks' = scan_tasks
           /\ app'.pause_status = app.pause_status
           /\ app'.connected_device = None
           /\ ~app'.is_connected
           /\ ~app'.is_loading
           /\ app'.error_view
           /\ app'.error_message = "No device selected"]_vars

\* A connect command was given with an empty registry while the scan task
\* was running.
C21_Witness ==
    /\ last.op = "connect"
    /\ app.devices = <<>>
    /\ app.error_view
    /\ app.error_message = "No device selected"
    /\ scan_tasks.cur = "alive"
    /\ ops = EmptyBag

\* C22: a write-attribute operation sends exactly one completion event.
\* The first write is made with acknowledgement; only when it failed is a
\* second one made without acknowledgement.  The event is WriteComplete when
\* either write succeeded, and otherwise one Error event carrying the
\* messages of both failures.
C22_WriteSendsOneCompletion ==
    [][last'.op = "write_characteristic_value" =>
           LET writes == last'.writes
               ev == rx'[Len(rx')]
           IN /\ Len(rx') = Len(rx) + 1
              /\ SubSeq(rx', 1, Len(rx)) = rx
              /\ writes[1].write_type = "WithResponse"
              /\ IF writes[1].answer = "Ok"
                 THEN Len(writes) = 1 /\ ev.kind = "WriteComplete"
                 ELSE /\ Len(writes) = 2
                      /\ writes[2].write_type = "WithoutResponse"
                      /\ IF writes[2].answer = "Ok"
                         THEN ev.kind = "WriteComplete"
                         ELSE /\ ev.kind = "Error"
                              /\ ev.text = "Write error: WithResponse: "
                                           \o writes[1].answer
                                           \o "; WithoutResponse: "
                                           \o writes[2].answer]_vars

\* The write with acknowledgement failed, the write without succeeded, and
\* the one event sent is WriteComplete.
C22_Witness ==
    /\ last.op = "write_characteristic_value"
    /\ Len(last.writes) = 2
    /\ last.writes[1].answer = "NotPermitted"
    /\ last.writes[2].answer = "Ok"
    /\ rx # <<>>
    /\ rx[Len(rx)].kind = "WriteComplete"

\* C23 as stated: for every byte sequence b, here every value the attribute
\* server's store takes, hex_to_bytes(bytes_to_hex(b)) succeeds with b.
C23_RoundTrip ==
    hex_to_bytes(bytes_to_hex(server_shared_value)) = Ok(server_shared_value)

\* C23, amended: the round trip returns b for every b whose hex digits fit
\* MAX_HEX_INPUT_LEN, and is an error for every longer b.
C23_RoundTripWithinLimit ==
    LET b == server_shared_value
    IN IF 2 * Len(b) <= MAX_HEX_INPUT_LEN
       THEN hex_to_bytes(bytes_to_hex(b)) = Ok(b)
       ELSE hex_to_bytes(bytes_to_hex(b)) = Err

\* The store holds two bytes, one of them with a letter digit, and the
\* round trip returns them.
C23_Witness ==
    /\ Len(server_shared_value) = 2
    /\ \E i \in 1..2 : server_shared_value[i] % 16 >= 10
    /\ bytes_to_hex(server_shared_value)[3] = 32
    /\ hex_to_bytes(bytes_to_hex(server_shared_value)).bytes = server_shared_value

\* A text hex_to_bytes has to refuse: once whitespace is removed, its length
\* is odd or one of its bytes is no hexadecimal digit.
NotHex(text) ==
    LET cleaned == strip_whitespace(text)
    IN \/ Len(cleaned) % 2 # 0
       \/ \E i \in 1..Len(cleaned) : to_digit16(cleaned[i]) < 0

\* C24: hex_to_bytes returns an error for every input that is of odd length
\* or holds a character that is no hexadecimal digit: committing such a
\* buffer in Hex format neither aborts nor starts a write.
C24_BadHexIsAnError ==
    [][(/\ last'.op = "Enter"
        /\ app.input_mode = "Editing"
        /\ app.mode = "Client"
        /\ app.data_format = "Hex"
        /\ NotHex(app.input_buffer)) =>
           /\ hex_to_bytes(app.input_buffer) = Err
           /\ ~panicked'
           /\ ops' = ops]_vars

\* C25: every peer request the attribute server handles, read or write,
\* accepted or rejected, sends exactly one server-log event of direction
\* Received (the event whose text carries the request's offset).
C25_EveryRequestLogged ==
    [][last'.op \in {"ReadRequest", "WriteRequest"} =>
           /\ Len(rx') = Len(rx) + 1
           /\ SubSeq(rx', 1, Len(rx)) = rx
           /\ rx'[Len(rx')].kind = "ServerLog"
           /\ rx'[Len(rx')].direction = "Received"]_vars

\* C26: Enter in Editing mode always ends with the input mode Normal, the
\* input buffer empty and the cursor at 0, in either role and whether or not
\* the buffer passed validation.
C26_EnterLeavesEditing ==
    [][(last'.op = "Enter" /\ app.input_mode = "Editing") =>
           /\ ~panicked'
           /\ app'.input_mode = "Normal"
           /\ app'.input_buffer = <<>>
           /\ app'.cursor_position = 0]_vars

\* The buffer fails the validation of its commit: a value that is no hex
\* text or is longer than the limit of its format, or a uuid field whose
\* text is no uuid.
FailsValidation(a) ==
    IF a.mode = "Client" \/ a.is_advertising
    THEN IF a.data_format = "Hex"
         THEN \/ NotHex(a.input_buffer)
              \/ Len(strip_whitespace(a.input_buffer)) > MAX_HEX_INPUT_LEN
         ELSE Len(a.input_buffer) > MAX_INPUT_LEN
    ELSE /\ a.server_field_focus \in {"ServiceUuid", "CharUuid"}
         /\ ~(/\ Len(a.input_buffer) = 2
              /\ \A i \in 1..2 : to_digit16(a.input_buffer[i]) >= 0)

C28_FullCacheEvictsOldest ==
    [][(/\ last'.op = "insert_char_value"
        /\ last'.uuid \notin DOMAIN app.char_values
        /\ Cardinality(DOMAIN app.char_values) = MAX_CHAR_VALUES) =>
           LET oldest == app.char_values_order[1]
               kept == DOMAIN app.char_values \ {oldest}
           IN /\ DOMAIN app'.char_values = kept \cup {last'.uuid}
              /\ app'.char_values[last'.uuid] = last'.value
              /\ \A u \in kept : app'.char_values[u] = app.char_values[u]
              /\ app'.char_values_order =
                     Tail(app.char_values_order) \o <<last'.uuid>>]_vars

\* A full cache took a new uuid and the evicted, oldest uuid was a
\* subscribed one.
C28_Witness ==
    /\ last.op = "insert_char_value"
    /\ ~last.present
    /\ Len(last.before) = MAX_CHAR_VALUES
    /\ last.before[1] \in app.subscribed_chars
    /\ last.before[1] \notin DOMAIN app.char_values
    /\ last.uuid \in DOMAIN app.char_values
    /\ app.char_values[last.uuid] = last.value

\* The scan task is in its loop.
ScanTaskInLoop ==
    scan_tasks.cur = "alive" /\ scan_tasks.at \in {"top", "pause", "sleep", "select"}

\* A device-discovered event was put on the channel.
DeviceInfoSent ==
    /\ Len(rx') = Len(rx) + 1
    /\ rx'[Len(rx')].kind = "DeviceInfo"

\* C29: while the pause flag stays set, the scan task in its loop comes to
\* stop the underlying scan; while the flag stays set the scan stays
\* stopped, and no device-discovered event is sent while it is stopped;
\* once the flag is cleared and no shutdown is requested, the task comes
\* to restart the underlying scan.
C29_PauseStopsAndResumes ==
    /\ (app.pause_status /\ ScanTaskInLoop)
          ~> (~scan_tasks.scanning \/ ~app.pause_status \/ ~ScanTaskInLoop)
    /\ [][(ScanTaskInLoop /\ ~scan_tasks.scanning /\ app.pause_status
             /\ app'.pause_status)
           => ~scan_tasks'.scanning]_vars
    /\ [][DeviceInfoSent => scan_tasks.scanning]_vars
    /\ (~app.pause_status /\ ScanTaskInLoop /\ scan_tasks.signal = "none")
          ~> (scan_tasks.scanning \/ app.pause_status
              \/ scan_tasks.signal # "none" \/ ~ScanTaskInLoop)

\* The flag was cleared while the task sleeps with the underlying scan
\* stopped.
C29_Witness ==
    /\ ScanTaskAt("sleep")
    /\ ~scan_tasks.scanning
    /\ ~app.pause_status
    /\ scan_tasks.signal = "none"

\* C30: a scan task in its loop to which the shutdown signal was sent comes
\* to terminate, paused or not; a task that exited because of the shutdown
\* has the underlying scan stopped; stop_scan returns.
C30_ShutdownTerminates ==
    /\ (ScanTaskInLoop /\ scan_tasks.signal = "sent") ~> (scan_tasks.cur = "none")
    /\ [](scan_tasks.at = "stopped" => ~scan_tasks.scanning)
    /\ (pc = "stop_scan") ~> (pc # "stop_scan")

\* stop_scan awaits a paused task to which the signal was sent.
C30_Witness ==
    /\ pc = "stop_scan"
    /\ ScanTaskAt("sleep")
    /\ app.pause_status
    /\ scan_tasks.signal = "sent"

\* C31: a character key in Editing mode with the buffer below capacity is
\* inserted into the buffer at the cursor, and changes nothing else of the
\* session: it is no command.
C31_CharKeysAreInserted ==
    [][(/\ pc = "poll"
        /\ app.input_mode = "Editing"
        /\ ~app.error_view
        /\ last'.op = "Char"
        /\ Len(app.input_buffer) < MAX_INPUT_LEN)
       => LET buf == app.input_buffer
              cur == app.cursor_position
          IN /\ \E n \in 1..4 :
                   /\ Len(app'.input_buffer) = Len(buf) + n
                   /\ app'.cursor_position = cur + n
                   /\ SubSeq(app'.input_buffer, 1, cur) = SubSeq(buf, 1, cur)
                   /\ SubSeq(app'.input_buffer, cur + n + 1, Len(buf) + n)
                        = SubSeq(buf, cur + 1, Len(buf))
             /\ [app' EXCEPT !.input_buffer = buf, !.cursor_position = cur] = app
      ]_vars

\* The position of id in the order of the latest discoveries.
DiscoveredAt(id) == CHOOSE i \in 1..Len(discovered) : discovered[i] = id

\* C32: a discovery of an id already in the registry updates its record in
\* place and leaves the size of the registry unchanged, and no device is
\* evicted while another device, not the connected one, whose latest
\* discovery is older stays in the registry.
C32_RepeatDiscoveryIsFreshest ==
    [][(last'.op = "DeviceInfo")
       => LET before == DeviceIdsOf(app.devices)
              after == DeviceIdsOf(app'.devices)
          IN /\ (rx[1].dev \in before) =>
                    /\ Len(app'.devices) = Len(app.devices)
                    /\ \A i \in 1..Len(app.devices) :
                          get_id(app'.devices[i]) = get_id(app.devices[i])
             /\ \A gone \in before \ after, kept \in after \cap before :
                    \/ IsSome(app.connected_device)
                          /\ get_id(Unwrap(app.connected_device)) = kept
                    \/ DiscoveredAt(kept) > DiscoveredAt(gone)
      ]_vars

\* C33: in Normal mode the input buffer is empty and the cursor is at 0.
C33_NormalModeBufferEmpty ==
    app.input_mode = "Normal" =>
        /\ app.input_buffer = <<>>
        /\ app.cursor_position = 0

\* Enter committed an edited server name: the editor was left with text in
\* the buffer.
C33_Witness ==
    /\ last.op = "Enter"
    /\ app.input_mode = "Normal"
    /\ app.server_name = DEFAULT_SERVER_NAME \o CH_4

\* C34: is_loading and is_connected are never both true, and
\* connected_device is set exactly when one of them is.
C34_ConnectionFieldsConsistent ==
    /\ ~(app.is_loading /\ app.is_connected)
    /\ IsSome(app.connected_device) <=> (app.is_loading \/ app.is_connected)

\* An Error that arrived while Connecting returned the session to
\* Disconnected.
C34_Witness ==
    /\ last.op = "Error"
    /\ last.present
    /\ was_loading
    /\ ~app.is_loading
    /\ ~app.is_connected
    /\ IsNone(app.connected_device)

\* C35: with no connecting or connected device, the attribute records, the
\* value cache, its ledger and the subscription set are empty; this
\* includes the states after a value, notification, subscribe-complete or
\* unsubscribe-complete event was received with no device.
C35_DisconnectedIsEmpty ==
    IsNone(app.connected_device) =>
        /\ app.selected_characteristics = <<>>
        /\ app.char_values = EmptyMap
        /\ app.char_values_order = <<>>
        /\ app.subscribed_chars = {}

\* Such an event was received with no device.
C35_Witness ==
    /\ last.op = "ignored"
    /\ IsNone(app.connected_device)

\* C36: the selection of the device table is absent only while the registry
\* is empty, and a selection is an index below the length of the registry.
C36_SelectionInRange ==
    /\ IsNone(app.table_state) => app.devices = <<>>
    /\ IsSome(app.table_state) => Unwrap(app.table_state) < Len(app.devices)

\* An eviction removed the first record, which is at or before any selected
\* index, and a record is selected.
C36_Witness ==
    /\ last.op = "DeviceInfo"
    /\ last.evicted # {}
    /\ IsSome(app.table_state)
    /\ Len(app.devices) = MAX_DEVICES

\* C37: while the server is not advertising its value store is empty.
C37_StoppedServerStoreEmpty ==
    ~app.is_advertising => server_shared_value = <<>>

\* C38: in the client role, at the end of a tick of the loop with no device
\* connecting or connected, the scan handle is set.
C38_DisconnectedClientScans ==
    (/\ pc = "poll"
     /\ app.mode = "Client"
     /\ IsNone(app.connected_device)
     /\ ~app.is_loading)
    => IsSome(app.scan_handle)

\* C39: while a device is connecting or connected no scan task is alive.
C39_NoScanWhileConnectingOrConnected ==
    (app.is_loading \/ app.is_connected) => ScanTasksAlive = 0

\* C40: a session that is Connecting comes to be Connected or Disconnected,
\* and the tick of the loop in which it became Disconnected ends with a scan
\* task started.
C40_ConnectingEnds ==
    /\ app.is_loading ~> ~app.is_loading
    /\ [][(/\ pc = "drain"
            /\ pc' = "poll"
            /\ was_loading
            /\ ~app'.is_loading
            /\ ~app'.is_connected)
           => /\ IsSome(app'.scan_handle)
              /\ scan_tasks'.cur = "alive"
              /\ ~app'.pause_status]_vars

\* The connect failed: the tick ended Disconnected with the scan restarted.
C40_Witness ==
    /\ pc = "poll"
    /\ was_loading
    /\ ~app.is_loading
    /\ ~app.is_connected
    /\ IsNone(app.connected_device)
    /\ app.error_view
    /\ scan_tasks.cur = "alive"

====
